---- MODULE Spec2Model ----
(***************************************************************************)
(* State-machine model of the pushme-backend donation pipeline:            *)
(*   - nonce challenge authentication   (utils/signature.ts, routes/auth)  *)
(*   - on-chain payment verification    (config/solana.ts, paymentService) *)
(*   - signed-transaction relay         (services/solana.ts)               *)
(*   - the overlay WebSocket hub        (ws/overlaySocket.ts)              *)
(*   - donation routes and the ledger   (routes/donate.ts, donation.ts,    *)
(*                                       transaction.ts)                   *)
(* Strings that the code concatenates are sequences of atoms, so that a    *)
(* concatenation is modelled by \o and not by an injective pairing.        *)
(* Times are milliseconds since the process started.                       *)
(***************************************************************************)
EXTENDS Integers, Sequences, FiniteSets, TLC

VARIABLES
    now,          \* Date.now()
    nonceStore,   \* signature.ts: nonceStore (Map key -> {wallet, timestamp})
    nonceCount,   \* number of generateNonce calls made so far
    issued,       \* history: every challenge generateNonce has stored
    authReq,      \* POST /auth/verify requests
    accepted,     \* history: the (wallet, nonce) pairs verifySignature returned
                  \* true for, one entry per call, oldest first
    tokensIssued, \* history: wallet -> number of JWTs signed for it
    lastCall,     \* history: what the latest verifySignature call met and did
    users,        \* the users table: wallet -> username
    ticks,        \* number of clock advances made so far
    payIn,        \* the arguments of a verifyPayment call and the chain's answer
    payOut,       \* what that call returned
    relay,        \* one sendSignedTransaction call: position, counters, result
    wss,          \* overlaySocket.ts: the WebSocket server exists
    conns,        \* the sockets: transport state, flags, data frames received
    connectedClients,  \* overlaySocket.ts: the fanout set
    lastFrame,    \* the last client frame handled and what the handler left
    frames,       \* number of client frames handled so far
    bcasts,       \* number of broadcastToOverlay calls so far
    broadcastFn,  \* overlayEventService.ts: the broadcast function has been set
    ledger,       \* the donations table: rows in insertion order
    donReq,       \* the donation requests in progress or answered
    jobs,         \* the 'donations' queue: per tx hash, attempts left and payload
    emits,        \* tx hashes of the DONATION events handed to the hub, in order
    ok200,        \* tx hashes for which POST /donate has answered 200
    recent        \* one recent-donations request: its limit parameter and its query

authVars == <<now, nonceStore, nonceCount, issued, authReq, accepted, tokensIssued,
              lastCall, users, ticks>>

payVars == <<payIn, payOut>>

relayVars == <<relay>>

hubVars == <<wss, conns, connectedClients, lastFrame, frames, bcasts, broadcastFn>>
donVars == <<ledger, donReq, jobs, emits, ok200>>
recentVars == <<recent>>

nonAuthVars == <<payVars, relayVars, hubVars, donVars, recentVars>>
nonPayVars == <<authVars, relayVars, hubVars, donVars, recentVars>>
nonRelayVars == <<authVars, payVars, hubVars, donVars, recentVars>>
nonHubVars == <<authVars, payVars, relayVars, donVars, recentVars>>
nonDonVars == <<authVars, payVars, relayVars, recentVars>>
nonRecentVars == <<authVars, payVars, relayVars, hubVars, donVars>>

vars == <<authVars, payVars, relayVars, hubVars, donVars, recentVars>>

(***************************************************************************)
(* Bounds of the model.                                                    *)
(***************************************************************************)
MaxIssue == 1      \* generateNonce calls
MaxAuthReq == 2    \* POST /auth/verify requests
MaxTicks == 2      \* clock advances
MaxConns == 2      \* overlay connections accepted
MaxFrames == 2     \* client frames handled by the overlay hub
MaxBcasts == 1     \* broadcastToOverlay calls
MaxDonReq == 2     \* donation requests in progress at once
MaxReissue == 2    \* generateNonce calls where challenges are issued again
MaxLimitLen == 3   \* characters of the limit query parameter


(***************************************************************************)
(* NonceAuthenticator: utils/signature.ts                                  *)
(***************************************************************************)
NONCE_EXPIRY_MS == 300000

\* Wallet strings.  "A" and "B" stand for base58 strings that decode to a
\* 32-byte public key; any other string is not a public key.
KeyAtoms == {"A", "B"}
WA == <<"A">>
WB == <<"B">>
WAx == <<"A", ":", "x">>
Wallets == {WA, WB, WAx}

\* new PublicKey(wallet) succeeds
PublicKeyOk(w) == Len(w) = 1 /\ w[1] \in KeyAtoms

\* The values Math.random().toString(36) produces, in the order produced.
\* A base-36 string holds no ':'; the generator is taken never to repeat.
GenNonceSeq == <<"n1", "n2", "n3", "n4">>
\* the generator produces the same value every time
RandomNonce_Repeat(k) == <<GenNonceSeq[1]>>

RandomNonce(k) == <<GenNonceSeq[k]>>

NonceKey(w, n) == <<"nonce", ":">> \o w \o <<":">> \o n

ChallengeMessage(w, n, t) ==
    <<"Sign this message to authenticate with PushMe.", "\n", "\n", "Wallet: ">>
        \o w \o <<"\n", "Nonce: ">> \o n \o <<"\n", "Timestamp: ", t>>

StoreHas(store, key) == \E e \in store : e.key = key
StoreGet(store, key) == CHOOSE e \in store : e.key = key
StoreSet(store, key, w, t) ==
    {e \in store : e.key # key} \cup {[key |-> key, wallet |-> w, timestamp |-> t]}
\* (mutant) Map.delete leaves the entry in place
StoreDelete_Noop(store, key) == store

StoreDelete(store, key) == {e \in store : e.key # key}

\* (mutant) the expiry test never fires
NonceExpired_Never(at, timestamp) == FALSE

NonceExpired(at, timestamp) == at - timestamp > NONCE_EXPIRY_MS

\* generateNonce(wallet), with k the number of nonces generated before it
generateNonce(store, at, k, w) ==
    LET nonce == RandomNonce(k + 1)
    IN  [nonce |-> nonce, timestamp |-> at,
         store |-> StoreSet(store, NonceKey(w, nonce), w, at)]

\* the entry found under the key is taken for the caller's
IssuedTo_Anyone(stored, w) == TRUE

\* stored.wallet !== wallet, negated
IssuedTo(stored, w) == stored.wallet = w

\* verifyNonce, had it dropped the challenge on a timestamp mismatch as it
\* does on expiry
verifyNonce_DropOnMismatch(store, at, w, n, t) ==
    LET nonceKey == NonceKey(w, n)
    IN  IF ~StoreHas(store, nonceKey) THEN [ok |-> FALSE, store |-> store]
        ELSE LET stored == StoreGet(store, nonceKey)
             IN  IF stored.wallet # w THEN [ok |-> FALSE, store |-> store]
                 ELSE IF stored.timestamp # t \/ NonceExpired(at, t)
                      THEN [ok |-> FALSE, store |-> StoreDelete(store, nonceKey)]
                 ELSE [ok |-> TRUE, store |-> store]

\* verifyNonce(wallet, nonce, timestamp) called at time `at`:
\* the value returned and the store it leaves
verifyNonce(store, at, w, n, t) ==
    LET nonceKey == NonceKey(w, n)
    IN  IF ~StoreHas(store, nonceKey) THEN [ok |-> FALSE, store |-> store]
        ELSE LET stored == StoreGet(store, nonceKey)
             IN  IF ~IssuedTo(stored, w) THEN [ok |-> FALSE, store |-> store]
                 ELSE IF stored.timestamp # t THEN [ok |-> FALSE, store |-> store]
                 ELSE IF NonceExpired(at, t)
                      THEN [ok |-> FALSE, store |-> StoreDelete(store, nonceKey)]
                 ELSE [ok |-> TRUE, store |-> store]

\* (mutant) the used nonce is left in the store
deleteNonce_Keep(store, w, n) == store

deleteNonce(store, w, n) == StoreDelete(store, NonceKey(w, n))

\* A signature string: how it is written (enc), and, where it decodes, the
\* key that signed and the message that was signed.
\*   hex      128 hex digits             0xhex   "0x" and 128 hex digits
\*   base58   a base58 string of 64 bytes
\*   nonhex   128 characters, not hex: Buffer.from(s, 'hex') stops at the
\*            first bad digit and yields fewer than 64 bytes
\*   nonbase58  bs58.decode throws
Encodings == {"hex", "0xhex", "base58", "nonhex", "nonbase58"}

DecodeSignature(sig) ==
    IF sig.enc \in {"hex", "0xhex"}
    THEN [thrown |-> FALSE, len64 |-> TRUE, signer |-> sig.signer, msg |-> sig.msg]
    ELSE IF sig.enc = "nonhex"
    THEN [thrown |-> FALSE, len64 |-> FALSE, signer |-> sig.signer, msg |-> sig.msg]
    ELSE IF sig.enc = "base58"
    THEN [thrown |-> FALSE, len64 |-> TRUE, signer |-> sig.signer, msg |-> sig.msg]
    ELSE [thrown |-> TRUE, len64 |-> FALSE, signer |-> sig.signer, msg |-> sig.msg]

\* nacl.sign.detached.verify(message, signatureBytes, publicKeyBytes) for
\* 64 signature bytes
NaclVerify(message, bytes, w) == bytes.signer = w[1] /\ bytes.msg = message

\* what a verifySignature call gives: the value returned, whether it raised
\* instead of returning, whether its outer catch caught a throw, the store
Returned(ok, store) == [ok |-> ok, raised |-> FALSE, caught |-> FALSE, store |-> store]
Thrown(store) == [ok |-> FALSE, raised |-> TRUE, caught |-> FALSE, store |-> store]

\* the try block of verifySignature; the two inner catches return false
verifySignatureTry(store, at, w, sig, n, t) ==
    LET vn == verifyNonce(store, at, w, n, t)
        bytes == DecodeSignature(sig)
    IN  IF ~vn.ok THEN Returned(FALSE, vn.store)
        ELSE IF bytes.thrown THEN Returned(FALSE, vn.store)
        ELSE IF ~PublicKeyOk(w) THEN Returned(FALSE, vn.store)
        \* nacl throws "bad signature size"
        ELSE IF ~bytes.len64 THEN Thrown(vn.store)
        ELSE IF NaclVerify(ChallengeMessage(w, n, t), bytes, w)
             THEN Returned(TRUE, deleteNonce(vn.store, w, n))
        ELSE Returned(FALSE, vn.store)

\* (mutant) no outer catch: the throw leaves verifySignature
OuterCatch_Rethrow(res) == res

\* catch (error) { ...; return false; }
OuterCatch(res) ==
    IF res.raised THEN [Returned(FALSE, res.store) EXCEPT !.caught = TRUE] ELSE res

\* verifySignature(wallet, signature, nonce, timestamp) called at time `at`
verifySignature(store, at, w, sig, n, t) ==
    OuterCatch(verifySignatureTry(store, at, w, sig, n, t))

\* (mutant) the sweep empties the store
SweepStore_Clear(store, at) == {}

\* setInterval sweep: the store after one run at time `at`
SweepStore(store, at) == {e \in store : ~(at - e.timestamp > NONCE_EXPIRY_MS)}

(***************************************************************************)
(* routes/auth: POST /auth/nonce and POST /auth/verify                     *)
(***************************************************************************)
Absent == "absent"     \* no row for the wallet
Null == "null"         \* a row whose username is NULL
Usernames == {"alice"}

AuthReqIds == 1..MaxAuthReq

\* A request slot holds one in-flight request; a finished request's slot is
\* taken by the next request.
IdleAuthReq ==
    [pc |-> "idle", wallet |-> <<>>, existing |-> Absent, isValid |-> FALSE,
     status |-> 0, token |-> FALSE]

InSeq(x, q) == \E i \in 1..Len(q) : q[i] = x

\* What a verifySignature call met and did: whether a challenge had been
\* issued for the pair, with the timestamp sent, and was older than the
\* expiry; whether the signature was correct; whether the pair had been
\* accepted before; the value returned, or that the call raised; whether
\* its outer catch caught a throw; whether the store still holds the key;
\* the status the route answers with (0: none yet)
CallRecord(w, sig, n, t, vs, status) ==
    [made |-> TRUE,
     wasIssued |-> \E c \in issued : c.wallet = w /\ c.nonce = n,
     tsMatch |-> \E c \in issued : c.wallet = w /\ c.nonce = n /\ c.timestamp = t,
     expired |-> \E c \in issued :
                    c.wallet = w /\ c.nonce = n /\ now - c.timestamp > NONCE_EXPIRY_MS,
     sigCorrect |-> /\ PublicKeyOk(w)
                    /\ sig.enc \in {"hex", "0xhex", "base58"}
                    /\ sig.signer = w[1]
                    /\ sig.msg = ChallengeMessage(w, n, t),
     wasConsumed |-> InSeq(<<w, n>>, accepted),
     liveBefore |-> StoreHas(nonceStore, NonceKey(w, n)),
     ok |-> vs.ok,
     raised |-> vs.raised,
     caught |-> vs.caught,
     liveAfter |-> StoreHas(vs.store, NonceKey(w, n)),
     status |-> status]

\* The (wallet, nonce) pairs, timestamps and signatures a client may send:
\* the pair of an issued challenge; a pair that concatenates to the same
\* store key as an issued one; the nonce of an issued challenge under another
\* wallet; a nonce never issued.
ClientTargets ==
    {<<c.wallet, c.nonce>> : c \in issued}
        \cup {<<WA, <<"x", ":">> \o c.nonce>> : c \in {d \in issued : d.wallet = WAx}}
        \cup {<<WB, c.nonce>> : c \in {d \in issued : d.wallet = WA}}
        \cup {<<WA, <<"unknown">>>>}
ClientTimestamps == {c.timestamp : c \in issued} \cup {now}
\* every encoding of the signature the wallet's key makes over the canonical
\* message; the same made by another key; one made over another message
OtherMessage == <<"another message">>
ClientSignatures(w, n, t) ==
    [enc : Encodings, signer : {w[1]}, msg : {ChallengeMessage(w, n, t)}]
        \cup [enc : {"hex"}, signer : KeyAtoms \ {w[1]}, msg : {ChallengeMessage(w, n, t)}]
        \cup [enc : {"base58"}, signer : {w[1]}, msg : {OtherMessage}]

NoCall ==
    [made |-> FALSE, wasIssued |-> FALSE, tsMatch |-> FALSE, expired |-> FALSE,
     sigCorrect |-> FALSE, wasConsumed |-> FALSE, liveBefore |-> FALSE,
     ok |-> FALSE, raised |-> FALSE, caught |-> FALSE, liveAfter |-> FALSE,
     status |-> 0]

\* POST /auth/nonce {wallet}
AuthNonce(w) ==
    /\ nonceCount < MaxIssue
    /\ LET g == generateNonce(nonceStore, now, nonceCount, w)
       IN  /\ nonceStore' = g.store
           /\ issued' = issued \cup
                  {[wallet |-> w, nonce |-> g.nonce, timestamp |-> g.timestamp]}
    /\ nonceCount' = nonceCount + 1
    /\ UNCHANGED <<now, authReq, accepted, tokensIssued, lastCall, users, ticks>>
    /\ UNCHANGED nonAuthVars

\* generateNonce(wallet) called on its own, again and again for a wallet
GenerateNonceCall(w) ==
    /\ nonceCount < MaxReissue
    /\ LET g == generateNonce(nonceStore, now, nonceCount, w)
       IN  /\ nonceStore' = g.store
           /\ issued' = issued \cup
                  {[wallet |-> w, nonce |-> g.nonce, timestamp |-> g.timestamp]}
    /\ nonceCount' = nonceCount + 1
    /\ UNCHANGED <<now, authReq, accepted, tokensIssued, lastCall, users, ticks>>
    /\ UNCHANGED nonAuthVars

\* (mutant) the route does not look at what verifySignature returned
AuthVerifyGate_Unchecked(bodyOk, isValid) == IF ~bodyOk THEN 400 ELSE 0

\* What POST /auth/verify answers once verifySignature has returned
\* (0: it goes on to the users table)
AuthVerifyGate(bodyOk, isValid) ==
    IF ~bodyOk THEN 400 ELSE IF ~isValid THEN 401 ELSE 0

\* POST /auth/verify, up to its first await: validateAuthPayload and
\* verifySignature
AuthVerifyStart(r, bodyOk, w, sig, n, t) ==
    /\ authReq[r].pc \in {"idle", "done"}
    /\ LET vs == IF bodyOk THEN verifySignature(nonceStore, now, w, sig, n, t)
                 ELSE Returned(FALSE, nonceStore)
           gate == AuthVerifyGate(bodyOk, vs.ok)
       IN  /\ nonceStore' = vs.store
           /\ authReq' = [authReq EXCEPT ![r] =
                  [IdleAuthReq EXCEPT !.pc = IF gate = 0 THEN "select" ELSE "done",
                                      !.wallet = IF gate = 0 THEN w ELSE <<>>,
                                      !.isValid = vs.ok,
                                      !.status = gate]]
           /\ accepted' = IF vs.ok THEN Append(accepted, <<w, n>>) ELSE accepted
           /\ lastCall' = IF bodyOk THEN CallRecord(w, sig, n, t, vs, gate) ELSE lastCall
    /\ UNCHANGED <<now, nonceCount, issued, users, tokensIssued, ticks>>
    /\ UNCHANGED nonAuthVars

\* verifySignature called on its own
VerifySignatureCall(w, sig, n, t) ==
    /\ LET vs == verifySignature(nonceStore, now, w, sig, n, t)
       IN  /\ nonceStore' = vs.store
           /\ accepted' = IF vs.ok THEN Append(accepted, <<w, n>>) ELSE accepted
           /\ lastCall' = CallRecord(w, sig, n, t, vs, 0)
    /\ UNCHANGED <<now, nonceCount, issued, authReq, users, tokensIssued, ticks>>
    /\ UNCHANGED nonAuthVars

\* select username, id from users where wallet = ...   (an error leaves
\* existingUser null: only `data` is read)
AuthVerifySelect(r, dbOk) ==
    /\ authReq[r].pc = "select"
    /\ authReq' = [authReq EXCEPT ![r] =
           [@ EXCEPT !.pc = "upsert",
                     !.existing = IF dbOk THEN users[authReq[r].wallet] ELSE Absent]]
    /\ UNCHANGED <<now, nonceStore, nonceCount, issued, accepted, tokensIssued, lastCall,
                   users, ticks>>
    /\ UNCHANGED nonAuthVars

\* upsert the user, then jwt.sign and the 200 response
AuthVerifyUpsert(r, dbOk) ==
    /\ authReq[r].pc = "upsert"
    /\ IF dbOk
       THEN /\ users' = [users EXCEPT ![authReq[r].wallet] =
                   IF authReq[r].existing \in Usernames
                   THEN authReq[r].existing ELSE Null]
            /\ authReq' = [authReq EXCEPT ![r] =
                   [@ EXCEPT !.pc = "done", !.status = 200, !.token = TRUE]]
            /\ tokensIssued' = [tokensIssued EXCEPT ![authReq[r].wallet] = @ + 1]
       ELSE /\ users' = users
            /\ tokensIssued' = tokensIssued
            /\ authReq' = [authReq EXCEPT ![r] =
                   [@ EXCEPT !.pc = "done", !.status = 500]]
    /\ UNCHANGED <<now, nonceStore, nonceCount, issued, accepted, lastCall, ticks>>
    /\ UNCHANGED nonAuthVars

\* PATCH /auth/me: 3 to 20 characters of [a-zA-Z0-9_]; an empty name passes
\* and is stored as NULL
PatchNames == {"alice", "", "ab"}
ValidPatchName(username) == username # "ab"

\* PATCH /auth/me {username} with a token for wallet w: one update of the row
\* of w; with no row, or on a database error, nothing is written
PatchMe(w, username, dbOk) ==
    /\ tokensIssued[w] > 0
    /\ users' = IF ValidPatchName(username) /\ dbOk /\ users[w] # Absent
                THEN [users EXCEPT ![w] = IF username = "" THEN Null ELSE username]
                ELSE users
    /\ UNCHANGED <<now, nonceStore, nonceCount, issued, authReq, accepted, tokensIssued,
                   lastCall, ticks>>
    /\ UNCHANGED nonAuthVars

\* The setInterval callback of signature.ts
Sweep ==
    /\ nonceStore' = SweepStore(nonceStore, now)
    /\ nonceStore' # nonceStore
    /\ UNCHANGED <<now, nonceCount, issued, authReq, accepted, tokensIssued, lastCall,
                   users, ticks>>
    /\ UNCHANGED nonAuthVars

\* Time passes
TickSteps == {1, NONCE_EXPIRY_MS}
Tick(d) ==
    /\ ticks < MaxTicks
    /\ now' = now + d
    /\ ticks' = ticks + 1
    /\ UNCHANGED <<nonceStore, nonceCount, issued, authReq, accepted, tokensIssued,
                   lastCall, users>>
    /\ UNCHANGED nonAuthVars

AuthInit ==
    /\ now = 1
    /\ nonceStore = {}
    /\ nonceCount = 0
    /\ issued = {}
    /\ authReq = [r \in AuthReqIds |-> IdleAuthReq]
    /\ accepted = <<>>
    /\ tokensIssued = [w \in Wallets |-> 0]
    /\ lastCall = NoCall
    /\ users = [w \in Wallets |-> Absent]
    /\ ticks = 0

(***************************************************************************)
(* PaymentVerifier: verifyPayment and verifyTransaction                    *)
(*                                                                         *)
(* Balances are kept in lamports, as the chain reports them.  The code     *)
(* divides a lamport difference by 1e9 and compares the quotient with the  *)
(* price in SOL; for whole lamport differences that comparison agrees with *)
(* comparing the difference with the price in lamports, because the        *)
(* correctly rounded quotient is monotone and price * 1e9 / 1e9 rounds to  *)
(* the price literal.                                                      *)
(***************************************************************************)

LAMPORTS_PER_SOL == 1000000000

DonationTypes == {"text", "gif", "image", "audio", "video"}

\* prices in hundredths of a SOL: 0.01, 0.02, 0.03, 0.05, 0.1
PriceCents == [text |-> 1, gif |-> 2, image |-> 3, audio |-> 5, video |-> 10]

\* DONATION_PRICES, in lamports
DONATION_PRICES == [t \in DonationTypes |-> PriceCents[t] * (LAMPORTS_PER_SOL \div 100)]

TreasuryKey == "T"

\* config/solana treasuryPublicKey: null when no treasury wallet is configured
treasuryPublicKey(configured) == IF configured THEN TreasuryKey ELSE Null

\* balanceChange >= expectedAmount, with the comparison turned strict
SufficientAmount_Strict(balanceChange, expectedAmount) == balanceChange > expectedAmount

\* balanceChange >= expectedAmount
SufficientAmount(balanceChange, expectedAmount) == balanceChange >= expectedAmount

\* the sender test switched off
SenderMissing_Never(expectedSender, senderFound) == FALSE

\* if (expectedSender && !senderFound)
SenderMissing(expectedSender, senderFound) == expectedSender # Null /\ ~senderFound

\* the loop over accountKeys, from index i on, with the two flags so far
RECURSIVE ScanAccounts(_, _, _, _, _, _, _)
ScanAccounts(accounts, i, expectedAmount, expectedRecipient, expectedSender, recipientFound, senderFound) ==
    IF i > Len(accounts)
    THEN IF ~recipientFound THEN [verified |-> FALSE, error |-> "recipient-mismatch"]
         ELSE IF SenderMissing(expectedSender, senderFound)
              THEN [verified |-> FALSE, error |-> "sender-mismatch"]
              ELSE [verified |-> TRUE, error |-> Null]
    ELSE LET a == accounts[i]
             isRecipient == a.key = expectedRecipient
             isSender == expectedSender # Null /\ a.key = expectedSender
         IN  IF isRecipient /\ ~SufficientAmount(a.post - a.pre, expectedAmount)
             THEN [verified |-> FALSE, error |-> "insufficient-amount"]
             ELSE ScanAccounts(accounts, i + 1, expectedAmount, expectedRecipient,
                      expectedSender,
                      recipientFound \/ isRecipient,
                      senderFound \/ (isSender
                          /\ SufficientAmount(a.pre - a.post, expectedAmount)))

\* tx is what getTransaction answers for the hash
verifyTransaction(tx, expectedAmount, expectedRecipient, expectedSender) ==
    IF tx.rpc = "throws" THEN [verified |-> FALSE, error |-> "exception"]
    ELSE IF tx.rpc = "null" THEN [verified |-> FALSE, error |-> "not-found"]
    ELSE IF tx.meta # "ok" THEN [verified |-> FALSE, error |-> "failed"]
    ELSE ScanAccounts(tx.accounts, 1, expectedAmount, expectedRecipient,
                      expectedSender, FALSE, FALSE)

\* amount 0 stands for the absent amount field of a rejection
verifyPayment(tx, donationType, wallet, configured) ==
    IF treasuryPublicKey(configured) = Null
    THEN [verified |-> FALSE, amount |-> 0, error |-> "not-configured"]
    ELSE IF ~PublicKeyOk(wallet)
    THEN [verified |-> FALSE, amount |-> 0, error |-> "exception"]
    ELSE LET expectedAmount == DONATION_PRICES[donationType]
             verification == verifyTransaction(tx, expectedAmount,
                                 treasuryPublicKey(configured), wallet[1])
         IN  IF ~verification.verified
             THEN [verified |-> FALSE, amount |-> 0, error |-> verification.error]
             ELSE [verified |-> TRUE, amount |-> expectedAmount, error |-> Null]

\* the treasury account is among the transaction's accounts
TreasuryLocatable(tx) == \E i \in 1..Len(tx.accounts) : tx.accounts[i].key = TreasuryKey

\* what the transaction shows as the treasury's balance increase
TreasuryIncrease(tx) ==
    IF \E i \in 1..Len(tx.accounts) : tx.accounts[i].key = TreasuryKey
    THEN LET i == CHOOSE i \in 1..Len(tx.accounts) : tx.accounts[i].key = TreasuryKey
         IN  tx.accounts[i].post - tx.accounts[i].pre
    ELSE 0

\* the transaction shows a treasury increase below the price of the type
Shortfall(tx, type) ==
    TreasuryLocatable(tx) /\ TreasuryIncrease(tx) < DONATION_PRICES[type]

\* Transactions the chain may hold
StartBalance == (2 * LAMPORTS_PER_SOL) \div 10
NetworkFee == 5000
TreasuryIncreases ==
    {0, DONATION_PRICES["text"] \div 2, DONATION_PRICES["text"] - 1,
     DONATION_PRICES["text"], DONATION_PRICES["image"]}
SenderDecreases ==
    {NetworkFee, DONATION_PRICES["text"] - 1, DONATION_PRICES["text"],
     DONATION_PRICES["text"] + NetworkFee, DONATION_PRICES["image"] + NetworkFee}
TreasuryEntries ==
    {[key |-> TreasuryKey, pre |-> StartBalance, post |-> StartBalance + d] :
        d \in TreasuryIncreases}
SenderEntries ==
    {[key |-> k, pre |-> StartBalance, post |-> StartBalance - d] :
        k \in KeyAtoms, d \in SenderDecreases}
AccountLists ==
    {<<>>} \cup {<<s>> : s \in SenderEntries} \cup {<<t>> : t \in TreasuryEntries}
    \cup {<<s, t>> : s \in SenderEntries, t \in TreasuryEntries}
    \cup {<<t, s>> : s \in SenderEntries, t \in TreasuryEntries}
SettledTxs == {[rpc |-> "ok", meta |-> "ok", accounts |-> a] : a \in AccountLists}
PaidTx == [rpc |-> "ok", meta |-> "ok",
           accounts |-> << [key |-> "A", pre |-> StartBalance,
                            post |-> StartBalance - DONATION_PRICES["text"] - NetworkFee],
                           [key |-> TreasuryKey, pre |-> StartBalance,
                            post |-> StartBalance + DONATION_PRICES["text"]] >>]
ChainAnswers ==
    SettledTxs
    \cup {[rpc |-> "ok", meta |-> m, accounts |-> PaidTx.accounts] : m \in {"missing", "err"}}
    \cup {[rpc |-> r, meta |-> "missing", accounts |-> <<>>] : r \in {"null", "throws"}}

\* the commitment levels of the chain, lowest first
Commitments == <<"processed", "confirmed", "finalized">>
CommitmentRank(c) == CHOOSE i \in 1..Len(Commitments) : Commitments[i] = c

\* the commitment verifyTransaction asks getTransaction for
FetchCommitment == "confirmed"

\* solanaConnection.getTransaction(txHash, {commitment}): null for a
\* transaction that has not reached the commitment asked for
FetchAtCommitment(tx, level, commitment) ==
    IF tx.rpc = "ok" /\ CommitmentRank(level) < CommitmentRank(commitment)
    THEN [rpc |-> "null", meta |-> "missing", accounts |-> <<>>]
    ELSE tx

\* a verifyPayment call: what the chain holds for the hash and the
\* commitment it has reached when the call fetches it; the call's arguments
PayInputs ==
    [tx : ChainAnswers, level : {"processed", "confirmed", "finalized"},
     type : DonationTypes, wallet : Wallets, configured : BOOLEAN]

NoPayResult == [done |-> FALSE, verified |-> FALSE, amount |-> 0, error |-> Null]

\* one call verifyPayment(txHash, donationType, wallet)
VerifyPaymentCall ==
    /\ ~payOut.done
    /\ payOut' = [done |-> TRUE] @@
                 verifyPayment(FetchAtCommitment(payIn.tx, payIn.level, FetchCommitment),
                               payIn.type, payIn.wallet, payIn.configured)
    /\ UNCHANGED payIn
    /\ UNCHANGED nonPayVars

PayIdle ==
    /\ payIn = [tx |-> PaidTx, level |-> "finalized", type |-> "text", wallet |-> WA,
                configured |-> TRUE]
    /\ payOut = NoPayResult

(***************************************************************************)
(* TransactionRelay: sendSignedTransaction and confirmTransactionWithRetry  *)
(***************************************************************************)

maxRetries == 3      \* broadcast attempts of sendSignedTransaction
maxAttempts == 10    \* polls of confirmTransactionWithRetry

\* an error is named by the attempt that raised it and by what raised it
RelayError(attempt, kind) == [attempt |-> attempt, kind |-> kind]

\* lastError = null
NoRelayError == RelayError(0, "none")

IdleRelay ==
    [pc |-> "idle", validTx |-> TRUE, attempt |-> 0, poll |-> 0, signature |-> 0,
     lastError |-> NoRelayError, wait |-> 0, confirmed |-> FALSE,
     error |-> NoRelayError, firstError |-> NoRelayError,
     broadcasts |-> 0, polls |-> 0, okPolls |-> 0]

\* a poll confirms on any answer, an on-chain error included
PollConfirmed_IgnoreErr(outcome) == outcome \in {"ok", "err"}

\* confirmation.value.err unset: { confirmed: true }
PollConfirmed(outcome) == outcome = "ok"

\* one attempt more than the budget
RetriesLeft_OneMore(attempt) == attempt < maxRetries + 1

\* attempt < maxRetries: the loop has another round
RetriesLeft(attempt) == attempt < maxRetries

\* the catch keeps the error it caught first
CatchAssign_KeepFirst(previous, error) ==
    IF previous # NoRelayError THEN previous ELSE error

\* lastError = error
CatchAssign(previous, error) == error

\* the catch block of an attempt, and the throw after the loop;
\* firstError is history: the error the first failed attempt raised
RelayCatch(rl, error) ==
    LET lastError == CatchAssign(rl.lastError, error)
        caught == [rl EXCEPT !.lastError = lastError,
                             !.firstError = IF @ = NoRelayError THEN error ELSE @]
    IN  IF RetriesLeft(rl.attempt)
        THEN [caught EXCEPT !.pc = "backoff", !.wait = 1000 * rl.attempt]
        ELSE [caught EXCEPT !.pc = "thrown",
                            !.error = IF lastError # NoRelayError THEN lastError
                                      ELSE RelayError(0, "Transaction failed after retries")]

\* the confirmed result does not end the call: the signature is polled again
ConfirmedReturn_PollOn(rl) == [rl EXCEPT !.confirmed = TRUE]

\* if (confirmation.confirmed) return { signature, confirmed: true }
ConfirmedReturn(rl) == [rl EXCEPT !.pc = "returned", !.confirmed = TRUE]

\* an on-chain error is retried like a failed poll
OnChainError_PollAgain(rl) ==
    IF rl.poll = maxAttempts
    THEN RelayCatch(rl, RelayError(rl.attempt, "on-chain"))
    ELSE [rl EXCEPT !.poll = @ + 1, !.wait = 2000]

\* confirmation.value.err set: the confirm loop returns { confirmed: false,
\* error } and the attempt throws it
OnChainError(rl) == RelayCatch(rl, RelayError(rl.attempt, "on-chain"))

\* sendSignedTransaction(signedTxBase64) is called
RelayStart(validTx) ==
    /\ relay.pc \in {"idle", "returned", "thrown"}
    /\ relay' = [IdleRelay EXCEPT !.pc = "attempt", !.validTx = validTx, !.attempt = 1]
    /\ UNCHANGED nonRelayVars

\* Transaction.from and sendRawTransaction of one attempt
RelayBroadcast(outcome) ==
    /\ relay.pc = "attempt"
    /\ relay' =
         IF ~relay.validTx
         THEN RelayCatch(relay, RelayError(relay.attempt, "deserialize"))
         ELSE IF outcome = "throws"
         THEN RelayCatch([relay EXCEPT !.broadcasts = @ + 1],
                         RelayError(relay.attempt, "broadcast"))
         ELSE [relay EXCEPT !.pc = "confirm", !.poll = 1, !.signature = relay.attempt,
                            !.broadcasts = @ + 1]
    /\ UNCHANGED nonRelayVars

\* one confirmTransaction(signature, 'confirmed') of confirmTransactionWithRetry,
\* and what sendSignedTransaction does with the result when the loop ends
RelayPoll(outcome) ==
    /\ relay.pc = "confirm"
    /\ LET polled == [relay EXCEPT !.polls = @ + 1,
                          !.okPolls = @ + (IF outcome = "ok" THEN 1 ELSE 0)]
       IN  relay' =
             IF outcome = "throws"
             THEN IF relay.poll = maxAttempts
                  THEN RelayCatch(polled, RelayError(relay.attempt, "poll"))
                  ELSE [polled EXCEPT !.poll = @ + 1, !.wait = 2000]
             ELSE IF PollConfirmed(outcome)
             THEN ConfirmedReturn(polled)
             ELSE OnChainError(polled)
    /\ UNCHANGED nonRelayVars

\* the wait of 1000 * attempt ms is over: next attempt
RelayBackoff ==
    /\ relay.pc = "backoff"
    /\ relay' = [relay EXCEPT !.pc = "attempt", !.attempt = @ + 1]
    /\ UNCHANGED nonRelayVars

RelayIdle == relay = IdleRelay

NextRelay ==
    \/ \E validTx \in BOOLEAN : RelayStart(validTx)
    \/ \E outcome \in {"ok", "throws"} : RelayBroadcast(outcome)
    \/ \E outcome \in {"ok", "err", "throws"} : RelayPoll(outcome)
    \/ RelayBackoff

(***************************************************************************)
(* OverlayBroadcastHub: ws/overlaySocket.ts                                *)
(*                                                                         *)
(* A socket is NONE before it connects, then OPEN; CLOSING after close(),  *)
(* while the closing handshake runs and client frames may still arrive;    *)
(* DESTROYED after terminate() or a transport error (readyState CLOSING,   *)
(* nothing arrives any more); CLOSED once its 'close' event has fired.     *)
(* received holds the data frames delivered to the client, in order.       *)
(***************************************************************************)

ConnIds == 1..MaxConns

OverlaySecret == "secret"

\* client frames: the message text
ClientFrames ==
    {"{type:auth,key:secret}", "{type:auth,key:wrong}", "{type:hello}", "null", "not json"}

\* JSON.parse(message.toString()), and the two reads data.type and data.key
JsonParse(text) ==
    CASE text = "{type:auth,key:secret}" ->
             [thrown |-> FALSE, isNull |-> FALSE, type |-> "auth", key |-> "secret"]
      [] text = "{type:auth,key:wrong}" ->
             [thrown |-> FALSE, isNull |-> FALSE, type |-> "auth", key |-> "wrong"]
      [] text = "{type:hello}" ->
             [thrown |-> FALSE, isNull |-> FALSE, type |-> "hello", key |-> "undefined"]
      [] text = "null" ->
             [thrown |-> FALSE, isNull |-> TRUE, type |-> "undefined", key |-> "undefined"]
      [] OTHER ->
             [thrown |-> TRUE, isNull |-> FALSE, type |-> "undefined", key |-> "undefined"]

BroadcastEvents == {"DONATION", "STREAM_STATUS"}

\* pinged, answered and killedBy are history: a ping is outstanding, an
\* outstanding ping has been answered by a pong, and who destroyed the socket
NewConn ==
    [state |-> "NONE", isAuthenticated |-> FALSE, isAlive |-> "undefined",
     received |-> <<>>, handshake |-> FALSE,
     pinged |-> FALSE, answered |-> FALSE, killedBy |-> "none"]

NoFrame == [made |-> FALSE, conn |-> 0, text |-> "", wasAuthenticated |-> FALSE,
            stateAfter |-> "NONE"]

\* ws.close(): starts the closing handshake of an open socket
WsClose(cn) == IF cn.state = "OPEN" THEN [cn EXCEPT !.state = "CLOSING"] ELSE cn

\* ws.terminate(): destroys the socket
WsTerminate(cn, by) ==
    IF cn.state \in {"OPEN", "CLOSING"}
    THEN [cn EXCEPT !.state = "DESTROYED", !.killedBy = by]
    ELSE cn

\* ws.send(frame) that does not throw: delivered only on an open socket
WsSend(cn, event) ==
    IF cn.state = "OPEN" THEN [cn EXCEPT !.received = Append(@, event)] ELSE cn

\* createOverlaySocketServer
CreateServer ==
    /\ ~wss
    /\ wss' = TRUE
    /\ broadcastFn' = TRUE
    /\ UNCHANGED <<conns, connectedClients, lastFrame, frames, bcasts>>
    /\ UNCHANGED nonHubVars

\* wss.on('connection')
Connect(c) ==
    /\ wss
    /\ conns[c].state = "NONE"
    /\ \A b \in ConnIds : b < c => conns[b].state # "NONE"
    /\ conns' = [conns EXCEPT ![c] = [NewConn EXCEPT !.state = "OPEN"]]
    /\ UNCHANGED <<wss, connectedClients, lastFrame, frames, bcasts, broadcastFn>>
    /\ UNCHANGED nonHubVars

\* any key is taken for the secret
KeyMatches_Any(key) == TRUE

\* key === config.overlay.secret
KeyMatches(key) == key = OverlaySecret

\* the body of ws.on('message') for connection cn of id c:
\* [conn, add] with add = the connection is added to connectedClients
OnMessage(cn, text, sendOk) ==
    LET data == JsonParse(text)
    IN  IF data.thrown \/ data.isNull
        THEN [conn |-> cn, add |-> FALSE]
        ELSE IF data.type = "auth"
        THEN IF KeyMatches(data.key)
             THEN LET authed == [cn EXCEPT !.isAuthenticated = TRUE]
                  IN  [conn |-> IF sendOk THEN WsSend(authed, "AUTH_SUCCESS") ELSE authed,
                       add |-> TRUE]
             ELSE [conn |-> IF sendOk THEN WsClose(WsSend(cn, "AUTH_FAILED")) ELSE cn,
                   add |-> FALSE]
        ELSE IF ~cn.isAuthenticated
        THEN [conn |-> WsClose(cn), add |-> FALSE]
        ELSE [conn |-> cn, add |-> FALSE]

\* a client frame arrives; sendOk = the handler's ws.send does not throw
HandleMessage(c, text, sendOk) ==
    /\ frames < MaxFrames
    /\ conns[c].state \in {"OPEN", "CLOSING"}
    /\ LET r == OnMessage(conns[c], text, sendOk)
           after == [r.conn EXCEPT !.handshake =
                        @ \/ (text = "{type:auth,key:secret}")]
       IN  /\ conns' = [conns EXCEPT ![c] = after]
           /\ connectedClients' =
                  IF r.add THEN connectedClients \cup {c} ELSE connectedClients
           /\ lastFrame' = [made |-> TRUE, conn |-> c, text |-> text,
                            wasAuthenticated |-> conns[c].isAuthenticated,
                            stateAfter |-> after.state]
    /\ frames' = frames + 1
    /\ UNCHANGED <<wss, bcasts, broadcastFn>>
    /\ UNCHANGED nonHubVars

\* ws.on('close'), both handlers
CloseEvent(c) ==
    /\ conns[c].state \in {"OPEN", "CLOSING", "DESTROYED"}
    /\ conns' = [conns EXCEPT ![c].state = "CLOSED"]
    /\ connectedClients' =
           IF conns[c].isAuthenticated THEN connectedClients \ {c} ELSE connectedClients
    /\ UNCHANGED <<wss, lastFrame, frames, bcasts, broadcastFn>>
    /\ UNCHANGED nonHubVars

\* ws.on('error')
ErrorEvent(c) ==
    /\ conns[c].state \in {"OPEN", "CLOSING"}
    /\ conns' = [conns EXCEPT ![c] = WsTerminate(@, "error")]
    /\ connectedClients' =
           IF conns[c].isAuthenticated THEN connectedClients \ {c} ELSE connectedClients
    /\ UNCHANGED <<wss, lastFrame, frames, bcasts, broadcastFn>>
    /\ UNCHANGED nonHubVars

\* the liveness check failing at every tick
PingUnanswered_Always(isAlive) == TRUE

\* ws.isAlive === false
PingUnanswered(isAlive) == isAlive = "false"

\* one tick of the connection's pingInterval
PingTick(c) ==
    /\ conns[c].state \in {"OPEN", "CLOSING", "DESTROYED"}
    /\ IF PingUnanswered(conns[c].isAlive)
       THEN /\ connectedClients' =
                  IF conns[c].isAuthenticated THEN connectedClients \ {c}
                  ELSE connectedClients
            /\ conns' = [conns EXCEPT ![c] = WsTerminate(@, "liveness")]
       ELSE /\ conns' = [conns EXCEPT ![c].isAlive = "false", ![c].pinged = TRUE]
            /\ UNCHANGED connectedClients
    /\ UNCHANGED <<wss, lastFrame, frames, bcasts, broadcastFn>>
    /\ UNCHANGED nonHubVars

\* ws.on('pong')
PongEvent(c) ==
    /\ conns[c].state \in {"OPEN", "CLOSING"}
    /\ conns[c].isAlive # "true"
    /\ conns' = [conns EXCEPT ![c].isAlive = "true", ![c].pinged = FALSE,
                               ![c].answered = @ \/ conns[c].pinged]
    /\ UNCHANGED <<wss, connectedClients, lastFrame, frames, bcasts, broadcastFn>>
    /\ UNCHANGED nonHubVars

\* the connections broadcastToOverlay sends to, sent instead to every open socket
BroadcastTargets_AllOpen(clients, cs) == {c \in ConnIds : cs[c].state = "OPEN"}

\* the connections broadcastToOverlay sends to
BroadcastTargets(clients, cs) ==
    {c \in clients : cs[c].isAuthenticated /\ cs[c].state = "OPEN"}

\* the entries Set.forEach has still to visit once it has visited c, had the
\* delete of the visited entry made the iteration pass over the entry after it
StillToVisit_SkipAfterDelete(pending, c, deleted) ==
    IF deleted /\ pending \ {c} # {}
    THEN pending \ {c, CHOOSE x \in pending \ {c} : \A y \in pending \ {c} : x <= y}
    ELSE pending \ {c}

\* the entries Set.forEach has still to visit once it has visited c: deleting
\* the entry being visited leaves every other entry to be visited once
StillToVisit(pending, c, deleted) == pending \ {c}

\* connectedClients.forEach over the entries that pass the filter, in the
\* order of insertion (the order of the connection ids): send, and on a throw
\* delete the entry from the set; [conns, clients] after the iteration
RECURSIVE ForEachClient(_, _, _, _, _)
ForEachClient(pending, cs, clients, event, throwers) ==
    IF pending = {} THEN [conns |-> cs, clients |-> clients]
    ELSE LET client == CHOOSE x \in pending : \A y \in pending : x <= y
         IN  IF client \in throwers
             THEN ForEachClient(StillToVisit(pending, client, TRUE), cs,
                                clients \ {client}, event, throwers)
             ELSE ForEachClient(StillToVisit(pending, client, FALSE),
                                [cs EXCEPT ![client] = WsSend(cs[client], event)],
                                clients, event, throwers)

\* broadcastToOverlay(event); throwers = the clients whose send throws
\* [conns, clients] after the call
broadcastToOverlay(serverUp, cs, clients, event, throwers) ==
    IF ~serverUp THEN [conns |-> cs, clients |-> clients]
    ELSE ForEachClient(BroadcastTargets(clients, cs), cs, clients, event, throwers)

Broadcast(event, throwers) ==
    /\ bcasts < MaxBcasts
    /\ throwers \subseteq BroadcastTargets(connectedClients, conns)
    /\ LET r == broadcastToOverlay(wss, conns, connectedClients, event, throwers)
       IN  /\ conns' = r.conns
           /\ connectedClients' = r.clients
    /\ bcasts' = bcasts + 1
    /\ UNCHANGED <<wss, lastFrame, frames, broadcastFn>>
    /\ UNCHANGED nonHubVars

\* closeOverlaySocketServer
CloseServer ==
    /\ wss
    /\ conns' = [c \in ConnIds |->
                    IF c \in connectedClients THEN WsClose(conns[c]) ELSE conns[c]]
    /\ connectedClients' = {}
    /\ wss' = FALSE
    /\ UNCHANGED <<lastFrame, frames, bcasts, broadcastFn>>
    /\ UNCHANGED nonHubVars

HubInit ==
    /\ wss = FALSE
    /\ conns = [c \in ConnIds |-> NewConn]
    /\ connectedClients = {}
    /\ lastFrame = NoFrame
    /\ frames = 0
    /\ bcasts = 0
    /\ broadcastFn = FALSE

NextHub ==
    \/ CreateServer
    \/ \E c \in ConnIds : Connect(c)
    \/ \E c \in ConnIds, text \in ClientFrames, sendOk \in BOOLEAN :
          HandleMessage(c, text, sendOk)
    \/ \E c \in ConnIds : CloseEvent(c)
    \/ \E c \in ConnIds : ErrorEvent(c)
    \/ \E c \in ConnIds : PingTick(c)
    \/ \E c \in ConnIds : PongEvent(c)
    \/ \E event \in BroadcastEvents, throwers \in SUBSET ConnIds :
          Broadcast(event, throwers)
    \/ CloseServer

(***************************************************************************)
(* The recent-donations read path: routes/overlay.ts, routes/donation.ts   *)
(***************************************************************************)

\* The characters a limit parameter is made of here; a string is the sequence
\* of its characters.  An absent parameter reaches parseInt as undefined,
\* which parseInt converts to the string "undefined".
LimitChars == {"-", "0", "1", "9", "a"}
LimitStrings == UNION {[1..k -> LimitChars] : k \in 0..MaxLimitLen}
AbsentLimit == <<"u", "n", "d", "e", "f", "i", "n", "e", "d">>
LimitQueries == LimitStrings \cup {AbsentLimit}

DecimalDigits == {"0", "1", "2", "3", "4", "5", "6", "7", "8", "9"}
DigitValue(ch) ==
    CASE ch = "0" -> 0 [] ch = "1" -> 1 [] ch = "2" -> 2 [] ch = "3" -> 3
      [] ch = "4" -> 4 [] ch = "5" -> 5 [] ch = "6" -> 6 [] ch = "7" -> 7
      [] ch = "8" -> 8 [] ch = "9" -> 9

NaN == [nan |-> TRUE, value |-> 0]
Number(n) == [nan |-> FALSE, value |-> n]

\* the value of the longest prefix of decimal digits of s from position i on,
\* NaN when that prefix is empty
RECURSIVE ParseDigits(_, _, _, _)
ParseDigits(s, i, acc, seen) ==
    IF i > Len(s) \/ s[i] \notin DecimalDigits
    THEN IF seen THEN Number(acc) ELSE NaN
    ELSE ParseDigits(s, i + 1, 10 * acc + DigitValue(s[i]), TRUE)

\* parseInt(string): an optional sign, then decimal digits up to the first
\* character that is not one
parseInt(s) ==
    LET signed == Len(s) > 0 /\ s[1] \in {"-", "+"}
        digits == ParseDigits(s, IF signed THEN 2 ELSE 1, 0, FALSE)
    IN  IF digits.nan THEN NaN
        ELSE IF signed /\ s[1] = "-" THEN Number(0 - digits.value)
        ELSE digits

\* parsed || fallback: NaN and 0 are falsy
OrElse(parsed, fallback) ==
    IF parsed.nan \/ parsed.value = 0 THEN fallback ELSE parsed.value

Min(a, b) == IF a < b THEN a ELSE b

\* GET /overlay/recent: the argument of .limit()
overlayRecentLimit(query) ==
    LET limit == OrElse(parseInt(query), 1)
        capped == IF limit > 100 THEN 100 ELSE limit
    IN  IF capped < 1 THEN 1 ELSE capped

\* GET /donation/recent: the argument of .limit()
donationRecentLimit(query) ==
    LET limit == OrElse(parseInt(query), 10)
    IN  Min(limit, 100)

NoRecent(query) ==
    [made |-> FALSE, query |-> query, route |-> "none", requested |-> 0, status |-> 0]

RecentIdle == recent = NoRecent(<<>>)

\* GET /overlay/recent?limit=...
OverlayRecent(dbOk) ==
    /\ ~recent.made
    /\ recent' = [recent EXCEPT !.made = TRUE, !.route = "/overlay/recent",
                                !.requested = overlayRecentLimit(recent.query),
                                !.status = IF dbOk THEN 200 ELSE 500]
    /\ UNCHANGED nonRecentVars

\* GET /donation/recent?limit=...
DonationRecent(dbOk) ==
    /\ ~recent.made
    /\ recent' = [recent EXCEPT !.made = TRUE, !.route = "/donation/recent",
                                !.requested = donationRecentLimit(recent.query),
                                !.status = IF dbOk THEN 200 ELSE 500]
    /\ UNCHANGED nonRecentVars

(***************************************************************************)
(* DonationLedger: routes/donate.ts, the donations queue and its worker    *)
(*                                                                         *)
(* A handler is cut at its awaits.  A step is one answer of the database,  *)
(* the chain or the queue together with the handler code that runs on it   *)
(* up to the next await.                                                   *)
(***************************************************************************)

DonReqIds == 1..MaxDonReq

TxHashes == {"s1", "s2"}

\* s1: wallet A paid the text price; s2: wallet B paid the image price
PaidTxB == [rpc |-> "ok", meta |-> "ok",
            accounts |-> << [key |-> "B", pre |-> StartBalance,
                             post |-> StartBalance - DONATION_PRICES["image"] - NetworkFee],
                            [key |-> TreasuryKey, pre |-> StartBalance,
                             post |-> StartBalance + DONATION_PRICES["image"]] >>]

ChainTx(h) == IF h = "s1" THEN PaidTx ELSE PaidTxB

\* solanaConnection.getTransaction(txHash): the settled transaction, or a throw
GetTransaction(h, rpcOk) ==
    IF rpcOk THEN ChainTx(h) ELSE [rpc |-> "throws", meta |-> "missing", accounts |-> <<>>]

\* the storage layer's insert under the uniqueness constraint on tx_hash;
\* dbOk = FALSE: the insert fails for another reason
InsertUnique(rows, row, dbOk) ==
    IF ~dbOk THEN [error |-> "other", rows |-> rows]
    ELSE IF \E i \in 1..Len(rows) : rows[i].tx_hash = row.tx_hash
    THEN [error |-> "23505", rows |-> rows]
    ELSE [error |-> "none", rows |-> Append(rows, row)]

\* .select('id').eq('tx_hash', txHash).maybeSingle(): data is null on an error
ExistingDonation(rows, h, dbOk) == dbOk /\ \E i \in 1..Len(rows) : rows[i].tx_hash = h

\* the duplicate fast path switched off
DuplicateFound_Never(existingDonation) == FALSE

\* if (existingDonation)
DuplicateFound(existingDonation) == existingDonation

\* every insert error answered 500
DbErrorStatus_Always500(error) == 500

\* donate.ts: 23505 / duplicate / unique -> 409, any other insert error -> 500
DbErrorStatus(error) == IF error = "23505" THEN 409 ELSE 500

\* the wallet check switched off
WalletMatches_Any(payloadWallet, wallet) == TRUE

\* payload.wallet !== wallet, negated: the body names the credential's wallet
WalletMatches(payloadWallet, wallet) == payloadWallet = wallet

\* validateTextContent(content).valid
ValidateTextContent(content) == content # "  "

\* bearer tokens: jwt.verify gives the wallet the token was signed for, or throws
Tokens == {[valid |-> TRUE, wallet |-> WA], [valid |-> TRUE, wallet |-> WB],
           [valid |-> FALSE, wallet |-> <<>>]}

\* request bodies of POST /donate; valid = validateDonationPayload succeeds;
\* the blank content goes with one text body only; wallet A submits s1 as
\* text or as image and s2, which B paid, as text; wallet B submits s2
DonateBodies ==
    {b \in [valid : BOOLEAN, wallet : {WA, WB}, type : {"text", "image"},
            txHash : TxHashes, content : {"hi", "  "}] :
        /\ b.content = "  " => (b.type = "text" /\ b.txHash = "s1" /\ b.wallet = WA)
        /\ b.type = "image" => (b.txHash = "s1" /\ b.wallet = WA)
        /\ b.wallet = WB => b.txHash = "s2"
        /\ ~b.valid => (b.wallet = WA /\ b.type = "text" /\ b.txHash = "s1"
                            /\ b.content = "hi")}

FirstBody == [valid |-> TRUE, wallet |-> WA, type |-> "text", txHash |-> "s1",
              content |-> "hi"]

\* the requests a client sends: a token and a body; a bad token goes with
\* the first body, a token of another wallet with the first body and with
\* the malformed body
DonateCalls ==
    {c \in [token : Tokens, body : DonateBodies] :
        \/ c.body.valid /\ c.token.valid /\ c.body.wallet = c.token.wallet
        \/ c.body = FirstBody
        \/ ~c.body.valid /\ c.token.valid /\ c.body.wallet # c.token.wallet}

IdleDon ==
    [pc |-> "idle", route |-> "none", wallet |-> <<>>, type |-> "text", txHash |-> "s1",
     content |-> "hi", amount |-> 0, price |-> 0, status |-> 0, end |-> "none",
     after200 |-> FALSE, selectOk |-> FALSE,
     credWallet |-> <<>>, mismatch |-> FALSE, bodyValid |-> FALSE,
     chain |-> FALSE, stored |-> FALSE, emitted |-> FALSE, relayed |-> FALSE,
     underpaid |-> FALSE, insufficient |-> FALSE]

\* a request answered: what is kept of it
Answered(rq, status, end) ==
    [IdleDon EXCEPT !.pc = "done", !.route = rq.route, !.txHash = rq.txHash,
                    !.underpaid = rq.underpaid, !.insufficient = rq.insufficient,
                    !.status = status, !.end = end, !.after200 = rq.after200,
                    !.selectOk = rq.selectOk,
                    !.credWallet = IF rq.stored THEN rq.credWallet ELSE <<>>,
                    !.mismatch = rq.mismatch,
                    !.bodyValid = rq.bodyValid, !.chain = rq.chain,
                    !.stored = rq.stored, !.emitted = rq.emitted,
                    !.relayed = rq.relayed]

NoJob == [attempts |-> 0, row |-> [tx_hash |-> "", wallet |-> <<>>, type |-> "text",
                                   price |-> 0, via |-> "none"],
          result |-> "none"]

QueueAttempts == 3

\* emitToOverlay(event): dropped until the broadcast function is set
emitToOverlay(fnSet, serverUp, cs, clients, event, throwers) ==
    IF ~fnSet THEN [conns |-> cs, clients |-> clients]
    ELSE broadcastToOverlay(serverUp, cs, clients, event, throwers)

\* POST /donate: verifyJWT, validation, wallet check, duplicate fast path
DonateCheck(r, call, dbOk) ==
    /\ donReq[r].pc = "idle"
    /\ \A q \in DonReqIds : q < r => donReq[q].pc # "idle"
    /\ LET body == call.body
           rq == [IdleDon EXCEPT !.route = "donate", !.txHash = body.txHash,
                                 !.after200 = body.txHash \in ok200,
                                 !.credWallet = IF call.token.valid
                                                THEN call.token.wallet ELSE <<>>,
                                 !.mismatch = /\ call.token.valid
                                              /\ body.wallet # call.token.wallet,
                                 !.bodyValid = body.valid]
           queried == [rq EXCEPT !.selectOk = dbOk]
       IN  donReq' = [donReq EXCEPT ![r] =
               IF ~call.token.valid THEN Answered(rq, 401, "credential")
               ELSE IF ~body.valid THEN Answered(rq, 400, "validation")
               ELSE IF ~WalletMatches(body.wallet, call.token.wallet)
               THEN Answered(rq, 403, "credential")
               ELSE IF DuplicateFound(ExistingDonation(ledger, body.txHash, dbOk))
               THEN Answered(queried, 409, "duplicate-check")
               ELSE [queried EXCEPT !.pc = "verify", !.wallet = call.token.wallet,
                               !.type = body.type, !.content = body.content]]
    /\ UNCHANGED <<ledger, jobs, emits, ok200>>
    /\ UNCHANGED <<hubVars, nonDonVars>>

\* the payment gate switched off
PaymentRejected_Never(paymentVerification) == FALSE

\* if (!paymentVerification.verified)
PaymentRejected(paymentVerification) == ~paymentVerification.verified

\* POST /donate: verifyPayment, content processing, price
DonateVerify(r, rpcOk) ==
    /\ donReq[r].pc = "verify" /\ donReq[r].route = "donate"
    /\ LET paymentVerification ==
               verifyPayment(GetTransaction(donReq[r].txHash, rpcOk), donReq[r].type,
                             donReq[r].wallet, TRUE)
           rq == [donReq[r] EXCEPT
                     !.chain = TRUE,
                     !.underpaid = rpcOk /\ Shortfall(ChainTx(donReq[r].txHash),
                                                      donReq[r].type),
                     !.insufficient = (paymentVerification.error = "insufficient-amount")]
       IN  donReq' = [donReq EXCEPT ![r] =
               IF PaymentRejected(paymentVerification) THEN Answered(rq, 403, "payment")
               ELSE IF rq.type = "text" /\ ~ValidateTextContent(rq.content)
               THEN Answered(rq, 400, "content")
               ELSE [rq EXCEPT !.pc = "insert",
                               !.price = IF paymentVerification.amount # 0
                                         THEN paymentVerification.amount
                                         ELSE DONATION_PRICES[rq.type]]]
    /\ UNCHANGED <<ledger, jobs, emits, ok200>>
    /\ UNCHANGED <<hubVars, nonDonVars>>

\* POST /donate: the insert and the handling of its error
DonateInsert(r, dbOk) ==
    /\ donReq[r].pc = "insert" /\ donReq[r].route = "donate"
    /\ LET rq == donReq[r]
           row == [tx_hash |-> rq.txHash, wallet |-> rq.wallet, type |-> rq.type,
                   price |-> rq.price, via |-> "donate"]
           res == InsertUnique(ledger, row, dbOk)
       IN  /\ ledger' = res.rows
           /\ donReq' = [donReq EXCEPT ![r] =
                  IF res.error = "none" THEN [rq EXCEPT !.pc = "enqueue", !.stored = TRUE]
                  ELSE Answered(rq, DbErrorStatus(res.error),
                                IF res.error = "23505" THEN "conflict" ELSE "insert-fault")]
    /\ UNCHANGED <<jobs, emits, ok200>>
    /\ UNCHANGED <<hubVars, nonDonVars>>

\* POST /donate: addDonationToQueue, emitDonationEvent, the 200 response;
\* queueOk = FALSE: the queue add throws and the outer catch answers 500
DonateEnqueue(r, queueOk, throwers) ==
    /\ donReq[r].pc = "enqueue" /\ donReq[r].route = "donate"
    /\ throwers \subseteq BroadcastTargets(connectedClients, conns)
    /\ LET rq == donReq[r]
           row == [tx_hash |-> rq.txHash, wallet |-> rq.wallet, type |-> rq.type,
                   price |-> rq.price, via |-> "queue"]
           hub == emitToOverlay(broadcastFn, wss, conns, connectedClients, "DONATION",
                                throwers)
       IN  IF ~queueOk
           THEN /\ throwers = {}
                /\ donReq' = [donReq EXCEPT ![r] = Answered(rq, 500, "queue-fault")]
                /\ UNCHANGED <<jobs, emits, ok200, conns, connectedClients>>
           ELSE /\ jobs' = [jobs EXCEPT ![rq.txHash] =
                               [attempts |-> QueueAttempts, row |-> row,
                                result |-> "none"]]
                /\ conns' = hub.conns
                /\ connectedClients' = hub.clients
                /\ emits' = Append(emits, rq.txHash)
                /\ ok200' = ok200 \cup {rq.txHash}
                /\ donReq' = [donReq EXCEPT ![r] =
                       Answered([rq EXCEPT !.emitted = TRUE], 200, "ok")]
    /\ UNCHANGED <<ledger, wss, lastFrame, frames, bcasts, broadcastFn>>
    /\ UNCHANGED nonDonVars

\* createDonation inserts beside whatever the table holds
createDonation_Append(rows, donation, dbOk) ==
    [error |-> "none", rows |-> Append(rows, donation)]

\* createDonation(donation): one insert into donations; an insert error
\* gives null
createDonation(rows, donation, dbOk) == InsertUnique(rows, donation, dbOk)

\* the queue worker runs a job: createDonation inserts the payload again;
\* a failed insert fails the attempt
QueueWorker(h, dbOk) ==
    /\ jobs[h].attempts > 0
    /\ LET res == createDonation(ledger, jobs[h].row, dbOk)
       IN  /\ ledger' = res.rows
           /\ jobs' = [jobs EXCEPT ![h] =
                  IF res.error = "none" THEN [NoJob EXCEPT !.result = "completed"]
                  ELSE IF jobs[h].attempts = 1 THEN [NoJob EXCEPT !.result = "failed"]
                  ELSE [@ EXCEPT !.attempts = @ - 1]]
    /\ UNCHANGED <<donReq, emits, ok200>>
    /\ UNCHANGED <<hubVars, nonDonVars>>

DonInit ==
    /\ ledger = <<>>
    /\ donReq = [r \in DonReqIds |-> IdleDon]
    /\ jobs = [h \in TxHashes |-> NoJob]
    /\ emits = <<>>
    /\ ok200 = {}

\* the hub once the server runs and connection 1 has authenticated
HubReady ==
    /\ wss = TRUE
    /\ broadcastFn = TRUE
    /\ conns = [c \in ConnIds |->
                   IF c = 1
                   THEN [NewConn EXCEPT !.state = "OPEN", !.isAuthenticated = TRUE,
                                        !.handshake = TRUE,
                                        !.received = <<"AUTH_SUCCESS">>]
                   ELSE NewConn]
    /\ connectedClients = {1}
    /\ lastFrame = [made |-> TRUE, conn |-> 1, text |-> "{type:auth,key:secret}",
                    wasAuthenticated |-> FALSE, stateAfter |-> "OPEN"]
    /\ frames = 1
    /\ bcasts = 0

NextDonate ==
    \/ \E r \in DonReqIds, call \in DonateCalls, dbOk \in BOOLEAN : DonateCheck(r, call, dbOk)
    \/ \E r \in DonReqIds, rpcOk \in BOOLEAN : DonateVerify(r, rpcOk)
    \/ \E r \in DonReqIds, dbOk \in BOOLEAN : DonateInsert(r, dbOk)
    \/ \E r \in DonReqIds, queueOk \in BOOLEAN, throwers \in SUBSET ConnIds :
          DonateEnqueue(r, queueOk, throwers)
    \/ \E h \in TxHashes, dbOk \in BOOLEAN : QueueWorker(h, dbOk)

\* The donation routes start with the overlay server running
InitDonate == AuthInit /\ PayIdle /\ RelayIdle /\ HubReady /\ DonInit /\ RecentIdle

SpecDonate == InitDonate /\ [][NextDonate]_vars

\* POST /donate with storage available to the worker: the worker takes
\* every waiting job, and the database answers each of its inserts
NextDonateLive ==
    \/ \E r \in DonReqIds, call \in DonateCalls, dbOk \in BOOLEAN : DonateCheck(r, call, dbOk)
    \/ \E r \in DonReqIds, rpcOk \in BOOLEAN : DonateVerify(r, rpcOk)
    \/ \E r \in DonReqIds, dbOk \in BOOLEAN : DonateInsert(r, dbOk)
    \/ \E r \in DonReqIds, queueOk \in BOOLEAN, throwers \in SUBSET ConnIds :
          DonateEnqueue(r, queueOk, throwers)
    \/ \E h \in TxHashes : QueueWorker(h, TRUE)

SpecDonateLive ==
    /\ InitDonate /\ [][NextDonateLive]_vars
    /\ WF_vars(\E h \in TxHashes : QueueWorker(h, TRUE))

(***************************************************************************)
(* The relaying routes: POST /transaction/send and POST /donation/confirm  *)
(*                                                                         *)
(* A signed transaction is named by the signature its broadcast returns.   *)
(* The whole sendSignedTransaction call is one step here: it returns the   *)
(* signature with confirmed = true, or throws.                             *)
(***************************************************************************)

RelayOutcomes == {"confirmed", "thrown"}

\* validateDonationAmount: |amount - DONATION_PRICES[type]| < 0.0001 SOL
validateDonationAmount(amount, type) ==
    LET d == amount - DONATION_PRICES[type]
    IN  (IF d < 0 THEN -d ELSE d) < LAMPORTS_PER_SOL \div 10000

\* MIN_DONATION_AMOUNT = 0.001 SOL
MIN_DONATION_AMOUNT == LAMPORTS_PER_SOL \div 1000

\* detectMediaType(mediaUrl)
detectMediaType(mediaUrl) ==
    IF mediaUrl = "" THEN "text"
    ELSE IF mediaUrl = "x.png" THEN "image"
    ELSE "text"

\* request bodies of POST /transaction/send; present = the required fields
\* are there and the type is a donation type
SendBodies ==
    {b \in [present : BOOLEAN, signed : TxHashes, wallet : {WA}, type : {"text", "image"},
            amount : {DONATION_PRICES["text"], DONATION_PRICES["image"]},
            content : {"hi", "  "}] :
        /\ b.content = "  " => (b.type = "text" /\ b.signed = "s1")
        /\ ~b.present => (b.type = "text" /\ b.signed = "s1" /\ b.content = "hi"
                             /\ b.amount = DONATION_PRICES["text"])}

\* request bodies of POST /donation/confirm
ConfirmBodies ==
    {b \in [present : BOOLEAN, signedTx : TxHashes, wallet : {WA, WAx},
            amount : {MIN_DONATION_AMOUNT \div 2, DONATION_PRICES["text"], LAMPORTS_PER_SOL},
            mediaUrl : {"", "x.png"}] :
        /\ b.wallet = WAx => (b.signedTx = "s1" /\ b.mediaUrl = "" /\ b.present
                                 /\ b.amount = DONATION_PRICES["text"])
        /\ ~b.present => (b.signedTx = "s1" /\ b.mediaUrl = ""
                             /\ b.amount = DONATION_PRICES["text"])}

\* transaction.ts: 23505 / duplicate / unique -> 409, any other insert error -> 500
SendDbErrorStatus(error) == IF error = "23505" THEN 409 ELSE 500

\* POST /transaction/send: field, type and amount validation
SendStart(r, body) ==
    /\ donReq[r].pc = "idle"
    /\ \A q \in DonReqIds : q < r => donReq[q].pc # "idle"
    /\ LET rq == [IdleDon EXCEPT !.route = "send", !.txHash = body.signed,
                                 !.after200 = body.signed \in ok200]
       IN  donReq' = [donReq EXCEPT ![r] =
               IF ~body.present THEN Answered(rq, 400, "validation")
               ELSE IF ~validateDonationAmount(body.amount, body.type)
               THEN Answered(rq, 400, "validation")
               ELSE [rq EXCEPT !.pc = "relay", !.wallet = body.wallet, !.type = body.type,
                               !.content = body.content, !.amount = body.amount]]
    /\ UNCHANGED <<ledger, jobs, emits, ok200>>
    /\ UNCHANGED <<hubVars, nonDonVars>>

\* POST /transaction/send: sendSignedTransaction is over; duplicate check,
\* content processing, price
SendRelayed(r, outcome, dbOk) ==
    /\ donReq[r].pc = "relay" /\ donReq[r].route = "send"
    /\ LET rq == [donReq[r] EXCEPT !.selectOk = dbOk,
                                   !.relayed = (outcome = "confirmed")]
       IN  donReq' = [donReq EXCEPT ![r] =
               IF outcome = "thrown" THEN Answered(rq, 500, "relay")
               ELSE IF DuplicateFound(ExistingDonation(ledger, rq.txHash, dbOk))
               THEN Answered(rq, 409, "duplicate-check")
               ELSE IF rq.type = "text" /\ ~ValidateTextContent(rq.content)
               THEN Answered(rq, 400, "content")
               ELSE [rq EXCEPT !.pc = "insert", !.price = DONATION_PRICES[rq.type]]]
    /\ UNCHANGED <<ledger, jobs, emits, ok200>>
    /\ UNCHANGED <<hubVars, nonDonVars>>

\* POST /transaction/send: the insert and the handling of its error
SendInsert(r, dbOk) ==
    /\ donReq[r].pc = "insert" /\ donReq[r].route = "send"
    /\ LET rq == donReq[r]
           row == [tx_hash |-> rq.txHash, wallet |-> rq.wallet, type |-> rq.type,
                   price |-> rq.price, via |-> "send"]
           res == InsertUnique(ledger, row, dbOk)
       IN  /\ ledger' = res.rows
           /\ donReq' = [donReq EXCEPT ![r] =
                  IF res.error = "none" THEN [rq EXCEPT !.pc = "respond", !.stored = TRUE]
                  ELSE Answered(rq, SendDbErrorStatus(res.error),
                                IF res.error = "23505" THEN "conflict" ELSE "insert-fault")]
    /\ UNCHANGED <<jobs, emits, ok200>>
    /\ UNCHANGED <<hubVars, nonDonVars>>

\* POST /transaction/send: broadcastDonation and the 200 response
SendFinish(r, throwers) ==
    /\ donReq[r].pc = "respond" /\ donReq[r].route = "send"
    /\ throwers \subseteq BroadcastTargets(connectedClients, conns)
    /\ LET hub == broadcastToOverlay(wss, conns, connectedClients, "DONATION", throwers)
       IN  /\ conns' = hub.conns
           /\ connectedClients' = hub.clients
    /\ emits' = Append(emits, donReq[r].txHash)
    /\ donReq' = [donReq EXCEPT ![r] =
           Answered([donReq[r] EXCEPT !.emitted = TRUE], 200, "ok")]
    /\ UNCHANGED <<ledger, jobs, ok200, wss, lastFrame, frames, bcasts, broadcastFn>>
    /\ UNCHANGED nonDonVars

\* POST /donation/confirm: field, amount and wallet validation
ConfirmStart(r, body) ==
    /\ donReq[r].pc = "idle"
    /\ \A q \in DonReqIds : q < r => donReq[q].pc # "idle"
    /\ LET rq == [IdleDon EXCEPT !.route = "confirm", !.txHash = body.signedTx,
                                 !.after200 = body.signedTx \in ok200]
       IN  donReq' = [donReq EXCEPT ![r] =
               IF ~body.present THEN Answered(rq, 400, "validation")
               ELSE IF body.amount < MIN_DONATION_AMOUNT THEN Answered(rq, 400, "validation")
               ELSE IF ~PublicKeyOk(body.wallet) THEN Answered(rq, 400, "validation")
               ELSE [rq EXCEPT !.pc = "relay", !.wallet = body.wallet,
                               !.type = detectMediaType(body.mediaUrl),
                               !.amount = body.amount]]
    /\ UNCHANGED <<ledger, jobs, emits, ok200>>
    /\ UNCHANGED <<hubVars, nonDonVars>>

\* POST /donation/confirm: sendSignedTransaction is over; duplicate check.
\* A relay failure is answered by res.json({success: false}), status 200.
ConfirmRelayed(r, outcome, dbOk) ==
    /\ donReq[r].pc = "relay" /\ donReq[r].route = "confirm"
    /\ LET rq == [donReq[r] EXCEPT !.selectOk = dbOk,
                                   !.relayed = (outcome = "confirmed")]
       IN  donReq' = [donReq EXCEPT ![r] =
               IF outcome = "thrown" THEN Answered(rq, 200, "relay")
               ELSE IF DuplicateFound(ExistingDonation(ledger, rq.txHash, dbOk))
               THEN Answered(rq, 409, "duplicate-check")
               ELSE [rq EXCEPT !.pc = "insert", !.price = rq.amount]]
    /\ UNCHANGED <<ledger, jobs, emits, ok200>>
    /\ UNCHANGED <<hubVars, nonDonVars>>

\* POST /donation/confirm: the insert; any insert error is answered 500
ConfirmInsert(r, dbOk) ==
    /\ donReq[r].pc = "insert" /\ donReq[r].route = "confirm"
    /\ LET rq == donReq[r]
           row == [tx_hash |-> rq.txHash, wallet |-> rq.wallet, type |-> rq.type,
                   price |-> rq.price, via |-> "confirm"]
           res == InsertUnique(ledger, row, dbOk)
       IN  /\ ledger' = res.rows
           /\ donReq' = [donReq EXCEPT ![r] =
                  IF res.error = "none" THEN [rq EXCEPT !.pc = "respond", !.stored = TRUE]
                  ELSE Answered(rq, 500,
                                IF res.error = "23505" THEN "conflict" ELSE "insert-fault")]
    /\ UNCHANGED <<jobs, emits, ok200>>
    /\ UNCHANGED <<hubVars, nonDonVars>>

\* broadcastDonationEvent of ws/overlaySocket: a DONATION event to the fanout set
broadcastDonationEvent(serverUp, cs, clients, throwers) ==
    broadcastToOverlay(serverUp, cs, clients, "DONATION", throwers)

\* POST /donation/confirm: broadcastDonationEvent and the success response
ConfirmFinish(r, throwers) ==
    /\ donReq[r].pc = "respond" /\ donReq[r].route = "confirm"
    /\ throwers \subseteq BroadcastTargets(connectedClients, conns)
    /\ LET hub == broadcastDonationEvent(wss, conns, connectedClients, throwers)
       IN  /\ conns' = hub.conns
           /\ connectedClients' = hub.clients
    /\ emits' = Append(emits, donReq[r].txHash)
    /\ donReq' = [donReq EXCEPT ![r] =
           Answered([donReq[r] EXCEPT !.emitted = TRUE], 200, "ok")]
    /\ UNCHANGED <<ledger, jobs, ok200, wss, lastFrame, frames, bcasts, broadcastFn>>
    /\ UNCHANGED nonDonVars

\* Every route that stores a donation
NextRoutes ==
    \/ NextDonate
    \/ \E r \in DonReqIds, body \in SendBodies : SendStart(r, body)
    \/ \E r \in DonReqIds, outcome \in RelayOutcomes, dbOk \in BOOLEAN :
          SendRelayed(r, outcome, dbOk)
    \/ \E r \in DonReqIds, dbOk \in BOOLEAN : SendInsert(r, dbOk)
    \/ \E r \in DonReqIds, throwers \in SUBSET ConnIds : SendFinish(r, throwers)
    \/ \E r \in DonReqIds, body \in ConfirmBodies : ConfirmStart(r, body)
    \/ \E r \in DonReqIds, outcome \in RelayOutcomes, dbOk \in BOOLEAN :
          ConfirmRelayed(r, outcome, dbOk)
    \/ \E r \in DonReqIds, dbOk \in BOOLEAN : ConfirmInsert(r, dbOk)
    \/ \E r \in DonReqIds, throwers \in SUBSET ConnIds : ConfirmFinish(r, throwers)

SpecRoutes == InitDonate /\ [][NextRoutes]_vars

Init == AuthInit /\ PayIdle /\ RelayIdle /\ HubInit /\ DonInit /\ RecentIdle

\* Payment verification over every transaction, type, wallet and configuration
InitPay ==
    /\ AuthInit /\ RelayIdle /\ HubInit /\ DonInit /\ RecentIdle
    /\ payIn \in PayInputs
    /\ payOut = NoPayResult

NextPay == VerifyPaymentCall

SpecPay == InitPay /\ [][NextPay]_vars

SpecRelay == Init /\ [][NextRelay]_vars

\* The recent-donations routes over every limit parameter
InitRecent ==
    /\ AuthInit /\ PayIdle /\ RelayIdle /\ HubInit /\ DonInit
    /\ recent \in {NoRecent(query) : query \in LimitQueries}

NextRecent ==
    \/ \E dbOk \in BOOLEAN : OverlayRecent(dbOk)
    \/ \E dbOk \in BOOLEAN : DonationRecent(dbOk)

SpecRecent == InitRecent /\ [][NextRecent]_vars

\* the relay when every chain call returns or fails and every timer fires:
\* a broadcast, a poll or a backoff that is pending is eventually taken
SpecRelayLive ==
    /\ Init
    /\ [][NextRelay]_vars
    /\ WF_vars(\E outcome \in {"ok", "throws"} : RelayBroadcast(outcome))
    /\ WF_vars(\E outcome \in {"ok", "err", "throws"} : RelayPoll(outcome))
    /\ WF_vars(RelayBackoff)

SpecHub == Init /\ [][NextHub]_vars

\* The challenge store under direct calls, the sweep and the clock
NextNonce ==
    \/ \E w \in Wallets : AuthNonce(w)
    \/ \E wn \in ClientTargets, t \in ClientTimestamps :
          \E sig \in ClientSignatures(wn[1], wn[2], t) :
              VerifySignatureCall(wn[1], sig, wn[2], t)
    \/ Sweep
    \/ \E d \in TickSteps : Tick(d)

SpecNonce == Init /\ [][NextNonce]_vars

\* The challenge store when one wallet asks for challenges again and again
NextReissue ==
    \/ GenerateNonceCall(WA)
    \/ \E wn \in ClientTargets, t \in ClientTimestamps :
          \E sig \in {g \in ClientSignatures(wn[1], wn[2], t) : g.enc = "base58"} :
              VerifySignatureCall(wn[1], sig, wn[2], t)
    \/ Sweep
    \/ \E d \in TickSteps : Tick(d)

SpecReissue == Init /\ [][NextReissue]_vars

\* The auth routes
NextAuth ==
    \/ \E w \in Wallets : AuthNonce(w)
    \/ \E r \in AuthReqIds, wn \in ClientTargets, t \in ClientTimestamps :
          \E sig \in ClientSignatures(wn[1], wn[2], t) :
              AuthVerifyStart(r, TRUE, wn[1], sig, wn[2], t)
    \/ \E r \in AuthReqIds :
          AuthVerifyStart(r, FALSE, <<>>, [enc |-> "nonbase58"], <<>>, 0)
    \/ \E r \in AuthReqIds, dbOk \in BOOLEAN : AuthVerifySelect(r, dbOk)
    \/ \E r \in AuthReqIds, dbOk \in BOOLEAN : AuthVerifyUpsert(r, dbOk)

SpecAuth == Init /\ [][NextAuth]_vars

\* A wallet that logs in again while it edits its profile
NextProfile ==
    \/ GenerateNonceCall(WA)
    \/ \E r \in AuthReqIds, c \in issued :
          AuthVerifyStart(r, TRUE, c.wallet,
                          [enc |-> "base58", signer |-> c.wallet[1],
                           msg |-> ChallengeMessage(c.wallet, c.nonce, c.timestamp)],
                          c.nonce, c.timestamp)
    \/ \E r \in AuthReqIds, dbOk \in BOOLEAN : AuthVerifySelect(r, dbOk)
    \/ \E r \in AuthReqIds, dbOk \in BOOLEAN : AuthVerifyUpsert(r, dbOk)
    \/ \E w \in Wallets, username \in PatchNames, dbOk \in BOOLEAN :
          PatchMe(w, username, dbOk)

SpecProfile == Init /\ [][NextProfile]_vars

(***************************************************************************)
(* Claims about the NonceAuthenticator                                     *)
(***************************************************************************)

\* C1: a challenge verifies exactly once.  No (wallet, nonce) pair is
\* accepted by two verifySignature calls; a call with the issued timestamp
\* and a correct signature inside the expiry window, on a pair not accepted
\* before, returns true; a call on a pair accepted before returns false and
\* POST /auth/verify answers 401; a request whose verifySignature returned
\* false is never given a token.
C1_VerifiesExactlyOnce ==
    /\ \A i, j \in 1..Len(accepted) : i # j => accepted[i] # accepted[j]
    /\ lastCall.made =>
          /\ (lastCall.tsMatch /\ ~lastCall.expired /\ lastCall.sigCorrect
                 /\ ~lastCall.wasConsumed) => lastCall.ok
          /\ lastCall.wasConsumed => (~lastCall.ok /\ lastCall.status = 401)
    /\ \A r \in AuthReqIds :
          /\ authReq[r].token => authReq[r].isValid
          /\ authReq[r].status = 401 => ~authReq[r].token

\* C1 witness: a second call with the issued timestamp and a correct
\* signature, on a challenge already used, was answered 401
C1_Witness ==
    /\ lastCall.made /\ lastCall.wasConsumed /\ lastCall.tsMatch
    /\ lastCall.sigCorrect /\ ~lastCall.expired
    /\ ~lastCall.ok /\ lastCall.status = 401

\* C8: a verifySignature call on a challenge issued more than 5 minutes
\* before returns false whatever the signature, and when the call carries the
\* issued timestamp (so that the expiry test is reached) the store no longer
\* holds the challenge after the call.
C8_ExpiredAlwaysFails ==
    (lastCall.made /\ lastCall.expired) =>
        /\ ~lastCall.ok
        /\ lastCall.tsMatch => ~lastCall.liveAfter

\* C8 witness: a call with a correct signature met a stored challenge older
\* than 5 minutes, returned false and removed it
C8_Witness ==
    /\ lastCall.made /\ lastCall.expired /\ lastCall.tsMatch /\ lastCall.sigCorrect
    /\ lastCall.liveBefore /\ ~lastCall.liveAfter /\ ~lastCall.ok

\* C10: every JWT signed for wallet w follows a verifySignature call that
\* returned true for a challenge issued to w: the tokens signed for w never
\* outnumber the accepted challenges of w, and a request holds a token only
\* if its own verifySignature call returned true.
AcceptedFor(w) ==
    {i \in 1..Len(accepted) :
        /\ accepted[i][1] = w
        /\ \E c \in issued : c.wallet = w /\ c.nonce = accepted[i][2]}

C10_TokenOnlyAfterVerification ==
    /\ \A w \in Wallets : tokensIssued[w] <= Cardinality(AcceptedFor(w))
    /\ \A r \in AuthReqIds : authReq[r].token => authReq[r].isValid

\* C10 witness: a token has been signed
C10_Witness == \E r \in AuthReqIds :
    authReq[r].token /\ authReq[r].status = 200 /\ tokensIssued[authReq[r].wallet] = 1

(***************************************************************************)
(* Claims about the PaymentVerifier                                        *)
(***************************************************************************)

\* what the transaction shows for the treasury and for the declared sender
SenderShowsDecrease(tx, w, amount) ==
    \E i \in 1..Len(tx.accounts) :
        /\ tx.accounts[i].key = w[1]
        /\ tx.accounts[i].pre - tx.accounts[i].post >= amount

FoundErrorFree ==
    /\ payOut.done /\ payIn.configured /\ PublicKeyOk(payIn.wallet)
    /\ payIn.tx.rpc = "ok" /\ payIn.tx.meta = "ok"
    /\ CommitmentRank(payIn.level) >= CommitmentRank(FetchCommitment)

\* C4 as stated: on a found, error-free transaction payment verification
\* rejects when the treasury increase is below the price of the declared type
\* and accepts, reporting the price, whenever the increase is at least the
\* price.
C4_AcceptsOnTreasuryIncreaseAlone ==
    FoundErrorFree =>
        LET price == DONATION_PRICES[payIn.type]
        IN  /\ TreasuryIncrease(payIn.tx) < price => ~payOut.verified
            /\ TreasuryIncrease(payIn.tx) >= price =>
                   (payOut.verified /\ payOut.amount = price)

\* C4: on a found, error-free transaction payment verification accepts
\* exactly when the treasury increase is at least the price of the declared
\* type and the declared sender's account appears in the transaction with a
\* decrease of at least that price; in particular it rejects every increase
\* below the price.  On acceptance the reported amount is the price, not
\* the raw delta.
C4_AcceptsPaidBySender ==
    FoundErrorFree =>
        LET price == DONATION_PRICES[payIn.type]
        IN  /\ TreasuryIncrease(payIn.tx) < price => ~payOut.verified
            /\ payOut.verified <=>
                   /\ TreasuryIncrease(payIn.tx) >= price
                   /\ SenderShowsDecrease(payIn.tx, payIn.wallet, price)
            /\ payOut.verified => payOut.amount = price

\* C4 witness: an accepted payment whose treasury increase exceeds the price
C4_Witness ==
    /\ FoundErrorFree /\ payOut.verified
    /\ TreasuryIncrease(payIn.tx) > DONATION_PRICES[payIn.type]
    /\ payOut.amount = DONATION_PRICES[payIn.type]

(***************************************************************************)
(* Claims about the TransactionRelay                                       *)
(***************************************************************************)

\* C7: a sendSignedTransaction call in which no confirmation poll answered
\* without an on-chain error ends, if it ends, by throwing an error; and a
\* call returns confirmed = true only after one of its own polls answered
\* without an on-chain error.
C7_NoFalsePositiveConfirmation ==
    /\ (relay.pc \in {"returned", "thrown"} /\ relay.okPolls = 0) =>
           (relay.pc = "thrown" /\ relay.error # NoRelayError /\ ~relay.confirmed)
    /\ relay.pc = "returned" => (relay.confirmed /\ relay.okPolls >= 1)

\* C7 witness: 3 broadcasts, each polled 10 times without success, then the throw
C7_Witness ==
    /\ relay.pc = "thrown" /\ relay.okPolls = 0
    /\ relay.broadcasts = maxRetries /\ relay.polls = maxRetries * maxAttempts
    /\ relay.error = RelayError(maxRetries, "poll")

(***************************************************************************)
(* Claims about the OverlayBroadcastHub                                    *)
(***************************************************************************)

AuthFrames == {"AUTH_SUCCESS", "AUTH_FAILED"}

\* C5: a connection that has not completed the auth handshake (no auth frame
\* carrying the configured secret has been handled for it) has received no
\* data frame other than AUTH_SUCCESS and AUTH_FAILED: no DONATION event and
\* no other broadcast event.
C5_NoBroadcastBeforeHandshake ==
    \A c \in ConnIds :
        ~conns[c].handshake =>
            \A i \in 1..Len(conns[c].received) : conns[c].received[i] \in AuthFrames

\* C5 witness: a broadcast reached an authenticated connection while another
\* connection, open and not authenticated, received nothing
C5_Witness ==
    \E c, d \in ConnIds :
        /\ bcasts = 1
        /\ conns[c].handshake /\ conns[c].received = <<"AUTH_SUCCESS", "DONATION">>
        /\ conns[d].state = "OPEN" /\ ~conns[d].handshake /\ conns[d].received = <<>>

\* C6: after the hub has handled a frame that is not an auth frame, sent by
\* a connection that was not authenticated, that connection is closed or
\* closing, whatever the frame's content.
C6_NonAuthFrameCloses ==
    (/\ lastFrame.made
     /\ ~lastFrame.wasAuthenticated
     /\ lastFrame.text \notin {"{type:auth,key:secret}", "{type:auth,key:wrong}"})
        => lastFrame.stateAfter \in {"CLOSING", "DESTROYED", "CLOSED"}

(***************************************************************************)
(* Claims about the DonationLedger                                         *)
(***************************************************************************)

RowsFor(h) == Cardinality({i \in 1..Len(ledger) : ledger[i].tx_hash = h})

EmitsFor(h) == Cardinality({i \in 1..Len(emits) : emits[i] = h})

\* two POST /donate requests for the same tx hash, both answered
AnsweredPairs ==
    {p \in DonReqIds \X DonReqIds :
        /\ p[1] # p[2]
        /\ donReq[p[1]].pc = "done" /\ donReq[p[2]].pc = "done"
        /\ donReq[p[1]].route = "donate" /\ donReq[p[2]].route = "donate"
        /\ donReq[p[1]].txHash = donReq[p[2]].txHash}

\* the request was not turned away before the insert and met no storage or
\* queue failure other than the uniqueness conflict
PassedToLedger(rq) == rq.end \in {"duplicate-check", "conflict", "queue-fault", "ok"}

\* the request carried a valid credential and a valid payload for its wallet
WellFormed(rq) == rq.end \notin {"credential", "validation"}

\* C2 as stated: once two well-formed POST /donate requests for the same tx
\* hash s are both answered, exactly one row for s is stored and at least one
\* of the two was answered 409; and there are never two rows for s.
C2_AlwaysOneRowAndA409 ==
    /\ \A h \in TxHashes : RowsFor(h) <= 1
    /\ \A p \in AnsweredPairs :
          (WellFormed(donReq[p[1]]) /\ WellFormed(donReq[p[2]])) =>
              /\ RowsFor(donReq[p[1]].txHash) = 1
              /\ donReq[p[1]].status = 409 \/ donReq[p[2]].status = 409

\* C2: there are never two rows for one tx hash s; and once two POST /donate
\* requests for s are both answered, neither having been rejected before the
\* insert (credential, validation, payment, content) nor having met an insert
\* failure other than the uniqueness conflict, exactly one row for s is
\* stored and at least one of the two was answered 409.
C2_OneRowPerTxHash ==
    /\ \A h \in TxHashes : RowsFor(h) <= 1
    /\ \A p \in AnsweredPairs :
          (PassedToLedger(donReq[p[1]]) /\ PassedToLedger(donReq[p[2]])) =>
              /\ RowsFor(donReq[p[1]].txHash) = 1
              /\ donReq[p[1]].status = 409 \/ donReq[p[2]].status = 409

\* C2 witness: two requests for s1 raced past the existence check; one stored
\* the row and the insert of the other met the uniqueness conflict
C2_Witness ==
    \E p \in AnsweredPairs :
        /\ donReq[p[1]].end = "ok" /\ donReq[p[1]].status = 200
        /\ donReq[p[2]].end = "conflict" /\ donReq[p[2]].status = 409
        /\ RowsFor(donReq[p[1]].txHash) = 1

C3_StoredPriceIsVerifiedAmount ==
    \A i \in 1..Len(ledger) :
        LET v == verifyPayment(ChainTx(ledger[i].tx_hash), ledger[i].type,
                               ledger[i].wallet, TRUE)
        IN  v.verified /\ ledger[i].price = v.amount

\* the rows stored through POST /donate: by the handler or by its queue job
DonateRows == {i \in 1..Len(ledger) : ledger[i].via \in {"donate", "queue"}}

\* the POST /donate requests that presented a valid credential for one
\* wallet and a body naming another
Mismatched == {r \in DonReqIds : donReq[r].route = "donate" /\ donReq[r].mismatch}

\* every row stored through POST /donate carries the wallet of the valid
\* credential of a request that stored that transaction
RowsCarryCredentialWallet ==
    \A i \in DonateRows :
        \E r \in DonReqIds : /\ donReq[r].route = "donate"
                             /\ donReq[r].stored
                             /\ donReq[r].txHash = ledger[i].tx_hash
                             /\ donReq[r].credWallet = ledger[i].wallet

\* C11 as stated: a row stored through POST /donate carries the wallet of
\* the request's valid credential, and every request whose body wallet
\* differs from its credential's wallet is answered 403 with no chain call,
\* insert or broadcast made for it.
C11_MismatchAlways403 ==
    /\ RowsCarryCredentialWallet
    /\ \A r \in Mismatched :
           /\ ~donReq[r].chain /\ ~donReq[r].stored /\ ~donReq[r].emitted
           /\ donReq[r].pc = "done" /\ donReq[r].status = 403

\* C11: a row stored through POST /donate carries the wallet of the
\* request's valid credential; a request whose body wallet differs from its
\* credential's wallet ends with no chain call, insert or broadcast made for
\* it, answered 403 when its payload passes validation and 400 when it does
\* not.
C11_MismatchNeverStored ==
    /\ RowsCarryCredentialWallet
    /\ \A r \in Mismatched :
           /\ ~donReq[r].chain /\ ~donReq[r].stored /\ ~donReq[r].emitted
           /\ donReq[r].pc = "done"
           /\ donReq[r].status = IF donReq[r].bodyValid THEN 403 ELSE 400

\* C11 witness: one request was answered 403 on the wallet check while
\* another stored its row
C11_Witness ==
    /\ \E r \in Mismatched : donReq[r].bodyValid /\ donReq[r].status = 403
    /\ \E q \in DonReqIds : donReq[q].stored /\ donReq[q].status = 200
    /\ DonateRows # {}

\* the requests that passed the existence check while no row for their
\* transaction was stored, and then lost the insert on the uniqueness
\* constraint
LostInsertRace == {r \in DonReqIds : /\ donReq[r].pc = "done"
                                     /\ donReq[r].selectOk
                                     /\ donReq[r].end = "conflict"}

\* C12: in every route that stores a donation, a request that passed the
\* existence check and whose insert then lost on the uniqueness constraint
\* is answered 409, the answer of the existence check.
C12_LosingInsertAnswered409 == \A r \in LostInsertRace : donReq[r].status = 409

\* the requests whose sendSignedTransaction call returned the signature of a
\* confirmed transaction and that have been answered
RelayedAndAnswered == {r \in DonReqIds : donReq[r].relayed /\ donReq[r].pc = "done"}

\* C13: a request whose relay broadcast the transaction and saw it confirmed
\* does not end without a row for that transaction in the ledger.
C13_ConfirmedIsRecorded ==
    \A r \in RelayedAndAnswered :
        \E i \in 1..Len(ledger) : ledger[i].tx_hash = donReq[r].txHash

\* the position in the ledger of the row of transaction h (0: no row)
RowIndex(h) ==
    IF \E i \in 1..Len(ledger) : ledger[i].tx_hash = h
    THEN CHOOSE i \in 1..Len(ledger) :
             /\ ledger[i].tx_hash = h
             /\ \A k \in 1..Len(ledger) : ledger[k].tx_hash = h => i <= k
    ELSE 0

\* C14: the DONATION events of distinct donations are handed to the hub in
\* the order in which their rows were accepted by the ledger.
C14_EmitOrderIsLedgerOrder ==
    \A i, j \in 1..Len(emits) :
        (i < j /\ emits[i] # emits[j]) => RowIndex(emits[i]) < RowIndex(emits[j])

(***************************************************************************)
(* Claims about the fanout set and the liveness check                      *)
(***************************************************************************)

\* a step that is one broadcastToOverlay call made while the server exists
BroadcastCall == wss /\ bcasts' = bcasts + 1

\* the members of the fanout set whose send threw in this call: they passed
\* the filter and were delivered nothing
ThrewOnSend ==
    {c \in BroadcastTargets(connectedClients, conns) :
        conns'[c].received = conns[c].received}

\* the members of the fanout set this call found not open
FoundNotOpen == {c \in connectedClients : conns[c].state # "OPEN"}

\* C15: when a broadcast call returns, the fanout set holds no connection
\* that threw on send during the call or that the call found not open.
C15_BroadcastPrunesFanout ==
    [][BroadcastCall => connectedClients' \cap (ThrewOnSend \cup FoundNotOpen) = {}]_vars

\* the socket is destroyed or closed
Terminated(cn) == cn.state \in {"DESTROYED", "CLOSED"}

\* a ping tick of a connection whose previous ping got no pong terminates
\* it and leaves it outside the fanout set
UnansweredIsTerminated ==
    \A c \in ConnIds :
        (PingTick(c) /\ conns[c].pinged)
            => (Terminated(conns'[c]) /\ c \notin connectedClients')

\* a ping tick of a connection with no unanswered ping does not terminate it
AnsweredIsSpared ==
    \A c \in ConnIds :
        (PingTick(c) /\ ~conns[c].pinged) => conns'[c].state = conns[c].state

\* a connection the liveness check destroyed stays out of the fanout set, and
\* it was destroyed with its last ping unanswered
KilledOnlyUnanswered ==
    \A c \in ConnIds :
        conns[c].killedBy = "liveness"
            => (Terminated(conns[c]) /\ conns[c].pinged /\ c \notin connectedClients)

\* C16: a connection that has not answered its last ping with a pong when
\* the next ping tick comes is terminated at that tick and is no longer in
\* the fanout set; a connection that has answered every ping before the next
\* tick is never terminated by the liveness check.
C16_LivenessCheck ==
    /\ []KilledOnlyUnanswered
    /\ [][UnansweredIsTerminated /\ AnsweredIsSpared]_vars

\* C16 witness: the liveness check destroyed one connection, while another,
\* which answered a ping and has been pinged again, is open and in the
\* fanout set
C16_Witness ==
    \E c, d \in ConnIds :
        /\ conns[c].killedBy = "liveness" /\ conns[c].handshake
        /\ conns[d].state = "OPEN" /\ conns[d].answered /\ conns[d].pinged
        /\ d \in connectedClients

(***************************************************************************)
(* Claims about verifySignature and the sweep                              *)
(***************************************************************************)

\* the latest verifySignature call met one of: no stored challenge for the
\* pair, a timestamp other than the stored one, an expired challenge, a
\* signature that does not decode, a wallet that is no public key, a
\* signature that does not verify
MustFail ==
    \/ ~lastCall.liveBefore
    \/ ~lastCall.tsMatch
    \/ lastCall.expired
    \/ ~lastCall.sigCorrect

\* C17: verifySignature never raises, and it returns false whenever there is
\* no matching stored challenge, the stored timestamp differs from the one
\* supplied, the challenge is expired, the signature cannot be decoded, the
\* wallet is not a valid public key, or the signature does not verify.
C17_FailsClosed ==
    lastCall.made => (~lastCall.raised /\ (MustFail => ~lastCall.ok))

\* C17 witness: on a live, unexpired challenge with the right timestamp, the
\* signature check threw and the call returned false
C17_Witness ==
    /\ lastCall.made /\ lastCall.caught /\ ~lastCall.ok /\ ~lastCall.raised
    /\ lastCall.liveBefore /\ lastCall.tsMatch /\ ~lastCall.expired

(***************************************************************************)
(* Claims about payment rejection in POST /donate                          *)
(***************************************************************************)

\* the POST /donate requests whose payment verification fetched a
\* transaction that shows a treasury increase below the price of the
\* declared type
Underpaid == {r \in DonReqIds : donReq[r].route = "donate" /\ donReq[r].underpaid}

SenderLocatable(tx, w) == \E i \in 1..Len(tx.accounts) : tx.accounts[i].key = w[1]

\* C19 as stated: payment verification rejects with sender-mismatch only when
\* the sender account is among the transaction's accounts and its balance
\* decrease is below the price.
C19_MismatchOnlyIfLocatable ==
    (payOut.done /\ payOut.error = "sender-mismatch")
        => /\ SenderLocatable(payIn.tx, payIn.wallet)
           /\ ~SenderShowsDecrease(payIn.tx, payIn.wallet, DONATION_PRICES[payIn.type])

\* C19: payment verification rejects with sender-mismatch exactly when the
\* transaction is found and error-free, its treasury account shows an
\* increase of at least the price, and no account of the declared sender
\* shows a decrease of at least the price: the sender is absent from the
\* transaction's accounts, or present with a smaller decrease.
C19_MismatchUnlessSenderPaid ==
    payOut.done =>
        (payOut.error = "sender-mismatch"
            <=> /\ FoundErrorFree
                /\ TreasuryLocatable(payIn.tx)
                /\ TreasuryIncrease(payIn.tx) >= DONATION_PRICES[payIn.type]
                /\ ~SenderShowsDecrease(payIn.tx, payIn.wallet,
                                        DONATION_PRICES[payIn.type]))

\* C19 witness: a transaction that pays the treasury the price and does not
\* hold the declared sender's account was rejected with sender-mismatch
C19_Witness ==
    /\ payOut.done /\ payOut.error = "sender-mismatch"
    /\ ~SenderLocatable(payIn.tx, payIn.wallet)
    /\ TreasuryIncrease(payIn.tx) >= DONATION_PRICES[payIn.type]

\* the age of a stored challenge is within the expiry window
WithinWindow(e) == now - e.timestamp <= NONCE_EXPIRY_MS

\* C20: after a run of the sweep the store holds no challenge older than the
\* expiry window, and the run has removed no challenge whose age is within
\* the window; no verification call is needed for either.
C20_SweepPurgesExactlyExpired ==
    [][Sweep => /\ \A e \in nonceStore' : WithinWindow(e)
                /\ \A e \in nonceStore : WithinWindow(e) => e \in nonceStore']_vars

\* C20 witness: a challenge older than the window has left the store while
\* no verification call was ever made
C20_Witness ==
    /\ ~lastCall.made /\ accepted = <<>>
    /\ \E c \in issued : now - c.timestamp > NONCE_EXPIRY_MS
    /\ nonceStore = {}

(***************************************************************************)
(* Claims about the challenge store under interleaved calls                *)
(***************************************************************************)

\* the store keys of the challenges verifySignature has returned true for
AcceptedKeys == [i \in 1..Len(accepted) |-> NonceKey(accepted[i][1], accepted[i][2])]

\* C21: verifySignature and the sweep callback hold no await, so each runs
\* to completion on the store: no store key is accepted by two
\* verifySignature calls, and a call returns true only if the store held the
\* challenge when the call began (neither a sweep nor an earlier
\* verification had deleted it), and the store no longer holds it when the
\* call returns.
C21_ReadThenDeleteIsAtomic ==
    /\ \A i, j \in 1..Len(AcceptedKeys) : i # j => AcceptedKeys[i] # AcceptedKeys[j]
    /\ (lastCall.made /\ lastCall.ok) => (lastCall.liveBefore /\ ~lastCall.liveAfter)
    /\ (lastCall.made /\ ~lastCall.liveBefore) => ~lastCall.ok

\* C21 witness: a call with the issued timestamp and a correct signature on
\* a challenge that no verification had used met an empty store, the sweep
\* having deleted the challenge, and returned false
C21_Witness ==
    /\ lastCall.made /\ lastCall.wasIssued /\ lastCall.tsMatch /\ lastCall.sigCorrect
    /\ ~lastCall.wasConsumed /\ accepted = <<>>
    /\ ~lastCall.liveBefore /\ ~lastCall.ok

(***************************************************************************)
(* Claims about the relay's retry budget                                   *)
(***************************************************************************)

\* a sendSignedTransaction call is under way
RelayRunning == relay.pc \in {"attempt", "confirm", "backoff"}

\* a sendSignedTransaction call has returned or thrown
RelayEnded == relay.pc \in {"returned", "thrown"}

\* the counters of a call stay inside the budget, and the waits are the
\* attempt index times 1 s after a failed attempt that has a successor, and
\* 2 s after a failed poll that has a successor
RelayWithinBudget ==
    /\ relay.attempt <= 3 /\ relay.broadcasts <= 3
    /\ relay.broadcasts <= relay.attempt
    /\ relay.poll <= 10 /\ relay.polls <= 10 * relay.broadcasts
    /\ relay.pc = "backoff" => (relay.attempt < 3 /\ relay.wait = 1000 * relay.attempt)
    /\ (relay.pc = "confirm" /\ relay.poll > 1) => relay.wait = 2000

C23_FirstConfirmationReturns ==
    /\ [](relay.okPolls >= 1 =>
             /\ relay.pc = "returned" /\ relay.okPolls = 1 /\ relay.confirmed
             /\ relay.signature = relay.attempt
             /\ relay.broadcasts <= relay.attempt)
    /\ [][relay.pc = "returned" =>
             (relay'.pc = "attempt" /\ relay'.broadcasts = 0 /\ relay'.polls = 0)]_vars

\* C23 witness: the second attempt was confirmed at its third poll, after a
\* first attempt that failed; the call returned the second signature
C23_Witness ==
    /\ relay.pc = "returned" /\ relay.attempt = 2 /\ relay.signature = 2
    /\ relay.poll = 3 /\ relay.okPolls = 1 /\ relay.broadcasts = 2
    /\ relay.firstError = RelayError(1, "on-chain")

\* C24: when all 3 attempts fail, the error thrown to the caller is the
\* error of the third attempt.
C24_LastErrorIsThrown ==
    relay.pc = "thrown" =>
        /\ relay.attempt = 3
        /\ relay.error.attempt = 3 /\ relay.error.kind # "none"
        /\ relay.error = relay.lastError

\* C24 witness: the first attempt failed at its broadcast and the third on
\* chain; the call threw the on-chain error of the third
C24_Witness ==
    /\ relay.pc = "thrown"
    /\ relay.firstError = RelayError(1, "broadcast")
    /\ relay.error = RelayError(3, "on-chain")

\* C25: a confirmation result that carries an on-chain error ends the
\* confirm loop of its attempt at once: the step leaves the loop whatever
\* the poll count, with that error caught, for the backoff before a fresh
\* broadcast if attempts remain and for the final throw if none does; and a
\* backoff is always followed by a broadcast attempt with the next index.
C25_OnChainErrorEndsConfirmLoop ==
    /\ [][RelayPoll("err") =>
             /\ relay'.pc = (IF relay.attempt < 3 THEN "backoff" ELSE "thrown")
             /\ relay'.lastError = RelayError(relay.attempt, "on-chain")
             /\ relay'.polls = relay.polls + 1
             /\ relay'.signature = relay.signature]_vars
    /\ [][relay.pc = "backoff" =>
             (relay'.pc = "attempt" /\ relay'.attempt = relay.attempt + 1)]_vars
    /\ [](relay.pc = "confirm" => relay.signature = relay.attempt)

\* C25 witness: the first attempt met an on-chain error at its first poll,
\* and a second broadcast has been made and is being polled
C25_Witness ==
    /\ relay.pc = "confirm" /\ relay.attempt = 2 /\ relay.signature = 2
    /\ relay.lastError = RelayError(1, "on-chain")
    /\ relay.polls = 1 /\ relay.broadcasts = 2

(***************************************************************************)
(* Claims about the order of the acceptance paths                          *)
(***************************************************************************)

\* the requests that stored the row at index i of the ledger
StoredBy(i) ==
    {r \in DonReqIds : /\ donReq[r].stored
                       /\ donReq[r].txHash = ledger[i].tx_hash
                       /\ donReq[r].route = ledger[i].via}

\* C26: every row of the ledger was stored by a request that had called
\* payment verification for the row's transaction and seen it pass, and a
\* request emits only after it stored its row.
C26_VerifiedBeforeRecorded ==
    /\ \A i \in 1..Len(ledger) :
           \E r \in StoredBy(i) : donReq[r].chain /\ ~donReq[r].underpaid
    /\ \A r \in DonReqIds : donReq[r].emitted => donReq[r].stored

\* C27: a request that stored a row has, when it is answered, handed one
\* DONATION event for the row's transaction to the hub; every stored
\* transaction is broadcast at most once; and a request emits only for a
\* row it stored itself.
C27_OneBroadcastPerAcceptance ==
    /\ \A r \in DonReqIds :
           /\ (donReq[r].pc = "done" /\ donReq[r].stored) => donReq[r].emitted
           /\ donReq[r].emitted => donReq[r].stored
    /\ \A h \in TxHashes : EmitsFor(h) <= RowsFor(h)
    /\ \A h \in TxHashes :
           (RowsFor(h) = 1 /\ \A r \in DonReqIds : donReq[r].pc \in {"idle", "done"})
               => EmitsFor(h) = 1

C29_AcceptedOnlyIfFinalized ==
    (payOut.done /\ payOut.verified) => payIn.level = "finalized"

(***************************************************************************)
(* Claims about the overlay handshake                                      *)
(***************************************************************************)

\* this step handles the frame `text` sent by connection c
HandlesFrame(c, text) ==
    /\ frames' = frames + 1
    /\ lastFrame'.conn = c /\ lastFrame'.text = text

\* this step delivers the frame `event` to connection c and nothing else
Delivers(c, event) == conns'[c].received = Append(conns[c].received, event)

\* this step is a broadcastToOverlay call
BroadcastStep == bcasts' = bcasts + 1

\* C30: a step that handles an auth frame with a wrong key from an open
\* connection delivers AUTH_FAILED to it and leaves it closing, whether it
\* had been authenticated or not; a broadcast that follows the handling of
\* such a frame delivers nothing to that connection; and a step that handles
\* an auth frame with the configured secret from an open connection puts it
\* into the fanout set and delivers AUTH_SUCCESS to it.
C30_HandshakeOutcome ==
    [][\A c \in ConnIds :
          /\ (HandlesFrame(c, "{type:auth,key:wrong}") /\ conns[c].state = "OPEN") =>
                 (Delivers(c, "AUTH_FAILED") /\ conns'[c].state = "CLOSING")
          /\ (BroadcastStep /\ lastFrame.made /\ lastFrame.conn = c
                  /\ lastFrame.text = "{type:auth,key:wrong}") =>
                 conns'[c].received = conns[c].received
          /\ (HandlesFrame(c, "{type:auth,key:secret}") /\ conns[c].state = "OPEN") =>
                 (c \in connectedClients' /\ Delivers(c, "AUTH_SUCCESS"))]_vars

\* C31: the authenticated flag of a connection never goes back from true to
\* false; it goes from false to true only in a step that handles an auth
\* frame with the configured secret from that connection; and such a frame
\* on a connection already authenticated leaves the flag set and the fanout
\* set with the connection in it once, as the set it is.
C31_AuthenticatedOnce ==
    [][\A c \in ConnIds :
          /\ conns[c].isAuthenticated => conns'[c].isAuthenticated
          /\ (~conns[c].isAuthenticated /\ conns'[c].isAuthenticated) =>
                 HandlesFrame(c, "{type:auth,key:secret}")
          /\ (HandlesFrame(c, "{type:auth,key:secret}") /\ conns[c].isAuthenticated) =>
                 /\ conns'[c].isAuthenticated
                 /\ connectedClients' = connectedClients \cup {c}]_vars

\* C31 witness: a connection already authenticated and in the fanout set
\* sent a second auth frame with the secret and is still both
C31_Witness ==
    /\ lastFrame.made /\ lastFrame.text = "{type:auth,key:secret}"
    /\ lastFrame.wasAuthenticated /\ frames = 2
    /\ conns[lastFrame.conn].isAuthenticated /\ lastFrame.conn \in connectedClients
    /\ conns[lastFrame.conn].state = "OPEN"

(***************************************************************************)
(* Claims about one broadcast call                                         *)
(***************************************************************************)

\* this step delivers to connection c nothing, or one frame
DeliversAtMostOnce(c) ==
    \/ conns'[c].received = conns[c].received
    \/ \E event \in BroadcastEvents : Delivers(c, event)

\* this step delivers to connection c exactly one frame
DeliversOnce(c) == \E event \in BroadcastEvents : Delivers(c, event)

\* connection c is authenticated and open before and after this step
AuthenticatedOpenThroughout(c) ==
    /\ conns[c].isAuthenticated /\ conns[c].state = "OPEN"
    /\ conns'[c].isAuthenticated /\ conns'[c].state = "OPEN"

Live(w, n) ==
    \E e \in nonceStore :
        /\ e.key = NonceKey(w, n) /\ e.wallet = w
        /\ now - e.timestamp <= NONCE_EXPIRY_MS

\* the (wallet, nonce) pairs verifySignature has returned true for
ConsumedPairs == {accepted[i] : i \in 1..Len(accepted)}

\* the (wallet, nonce) pairs of issued challenges whose window has passed
ExpiredPairs ==
    {<<c.wallet, c.nonce>> : c \in {d \in issued : now - d.timestamp > NONCE_EXPIRY_MS}}

C34_RequestedRowsWithinPage ==
    recent.made => (1 <= recent.requested /\ recent.requested <= 100)

(***************************************************************************)
(* Claims about failed verifications                                       *)
(***************************************************************************)

\* the signature the key of wallet w makes over the challenge message
ValidSignature(w, n, t) ==
    [enc |-> "base58", signer |-> w[1], msg |-> ChallengeMessage(w, n, t)]

\* the issued challenges of wallets with a public key that the store holds
\* unconsumed and whose window has not passed at time `at`
Verifiable(store, at) ==
    {c \in issued :
        /\ PublicKeyOk(c.wallet)
        /\ \E e \in store : /\ e.key = NonceKey(c.wallet, c.nonce)
                            /\ e.wallet = c.wallet /\ e.timestamp = c.timestamp
        /\ at - c.timestamp <= NONCE_EXPIRY_MS}

\* this step is a verifySignature call that returns false, and not because
\* verifyNonce found the challenge expired
FailsNotByExpiry ==
    /\ lastCall' # lastCall
    /\ lastCall'.made /\ ~lastCall'.ok
    /\ ~(lastCall'.liveBefore /\ lastCall'.tsMatch /\ lastCall'.expired)

\* C35: a verifySignature call that returns false for a reason other than
\* expiry leaves the challenge store unchanged, and every challenge that a
\* valid signature would have verified before the call is verified by a
\* call with a valid signature after it; as long as its window lasts and it
\* is in the store, a challenge is verified by such a call.
C35_FailureKeepsChallenge ==
    /\ [][FailsNotByExpiry =>
            /\ nonceStore' = nonceStore
            /\ \A c \in Verifiable(nonceStore, now) :
                  verifySignature(nonceStore', now', c.wallet,
                                  ValidSignature(c.wallet, c.nonce, c.timestamp),
                                  c.nonce, c.timestamp).ok]_vars
    /\ [](\A c \in Verifiable(nonceStore, now) :
             verifySignature(nonceStore, now, c.wallet,
                             ValidSignature(c.wallet, c.nonce, c.timestamp),
                             c.nonce, c.timestamp).ok)

\* a call with a signature that does not match has returned false for a
\* challenge that is issued, in the store and inside its window, and the
\* challenge is still there to be verified
C35_Witness ==
    /\ lastCall.made /\ ~lastCall.ok /\ ~lastCall.raised
    /\ lastCall.wasIssued /\ lastCall.tsMatch /\ ~lastCall.expired
    /\ ~lastCall.sigCorrect /\ lastCall.liveBefore /\ lastCall.liveAfter
    /\ Verifiable(nonceStore, now) # {}

(***************************************************************************)
(* Claims about whose challenge a call verifies                            *)
(***************************************************************************)

\* the wallets that were issued a challenge stored under the key of (w, n)
IssuedUnderKey(w, n) ==
    {c.wallet : c \in {d \in issued : NonceKey(d.wallet, d.nonce) = NonceKey(w, n)}}

\* C36: verifySignature returns true for (w, n) only if the challenge with
\* nonce n was issued to w: every accepted pair is the pair of an issued
\* challenge, also when another wallet's challenge is stored under the same
\* key string, and a call for a pair that was not issued returns false and
\* leaves the entry found under its key in the store.
C36_VerifiesOnlyForIssuedWallet ==
    /\ \A i \in 1..Len(accepted) :
          \E c \in issued : c.wallet = accepted[i][1] /\ c.nonce = accepted[i][2]
    /\ (lastCall.made /\ lastCall.ok) => lastCall.wasIssued
    /\ (lastCall.made /\ ~lastCall.wasIssued /\ lastCall.liveBefore) =>
          (~lastCall.ok /\ lastCall.liveAfter)

\* wallet A:x holds a challenge with nonce n1; a call for wallet A and nonce
\* x:n1, whose key is the same string, with A's signature over its own
\* message, has found the entry and returned false
C36_Witness ==
    /\ lastCall.made /\ ~lastCall.ok
    /\ ~lastCall.wasIssued /\ lastCall.liveBefore /\ lastCall.sigCorrect
    /\ lastCall.liveAfter
    /\ IssuedUnderKey(WA, <<"x", ":", "n1">>) = {WAx}

(***************************************************************************)
(* Claims about consumption and the session credential                     *)
(***************************************************************************)

\* C37: a POST /auth/verify request whose verifySignature call consumed the
\* challenge ends with a session credential: no finished request has
\* verified (and so deleted) its challenge and answered without a token.
C37_ConsumedOnlyWithToken ==
    \A r \in AuthReqIds :
        (authReq[r].pc = "done" /\ authReq[r].isValid) =>
            (authReq[r].token /\ authReq[r].status = 200)

(***************************************************************************)
(* Claims about the answer of POST /donate                                 *)
(***************************************************************************)

\* C38: a POST /donate request is answered 200 exactly if it stored a new
\* donation row: a request answered with an error stored nothing, and a
\* request that stored a row is not answered with an error, whatever step
\* fails after the insert.
C38_Status200IffStored ==
    \A r \in DonReqIds :
        (donReq[r].pc = "done" /\ donReq[r].route = "donate") =>
            ((donReq[r].status = 200) <=> donReq[r].stored)

(***************************************************************************)
(* Claims about the jobs of the donation queue                             *)
(***************************************************************************)

\* C39: where the database answers every insert of the worker, every job
\* POST /donate has put on the queue is eventually completed successfully,
\* and no job ends failed.
C39_JobsComplete ==
    /\ \A h \in TxHashes : (jobs[h].attempts > 0) ~> (jobs[h].result = "completed")
    /\ [](\A h \in TxHashes : jobs[h].result # "failed")

(***************************************************************************)
(* Claims about the username under concurrent requests                     *)
(***************************************************************************)

\* this step is the upsert of a POST /auth/verify request for wallet w
UpsertsUser(w) ==
    \E r \in AuthReqIds :
        /\ authReq[r].pc = "upsert" /\ authReq[r].wallet = w
        /\ authReq'[r].pc = "done"

\* C40: the upsert of POST /auth/verify leaves the username its wallet has
\* at that moment in place, whatever request set it and whenever the verify
\* request read the row.
C40_VerifyKeepsUsername ==
    [][\A w \in Wallets :
          (UpsertsUser(w) /\ users[w] \in Usernames) => users'[w] = users[w]]_vars

====
